---- MODULE Spec2Model ----
(***************************************************************************)
(* A model of the excel-translator repository.                             *)
(*                                                                         *)
(*  Spec      the fail-fast concurrent batch of                            *)
(*            ShapeTranslator.TranslateDrawingFile (and its twin           *)
(*            DocumentTranslator.TranslateDocumentXmlFile), each task      *)
(*            calling core.Translator.TranslateText through the closure    *)
(*            built in Translator.TranslateExcelFile.                      *)
(***************************************************************************)
EXTENDS Integers, Sequences, FiniteSets, TLC

\* ------------------------------------------------------------------ bounds
\* Largest number of <a:t> fragments in the drawing part of one batch.
MaxFragments == 2
\* Largest configured maxConcurrentRequests explored.
MaxK == 2

\* Largest number of markup units concatenated into one part content.
MaxUnits == 3

\* Largest number of entries in an input archive.
MaxEntries == 3

\* Number of tasks that call the translation engine concurrently.
MaxCallers == 2

\* Largest number of drawing*.xml parts in a workbook.
MaxDrawings == 3

\* Largest number of sheets in a workbook.
MaxSheets == 2

\* Largest number of cells to translate in one TranslateCells call.
MaxCells == 2

\* Number of Translate calls made through the C interface.
MaxCalls == 2

\* Number of translations started in the Qt window.
MaxRuns == 2

\* core.go:400  for attempt := 1; attempt <= 3; attempt++
MaxAttempts == 3

\* The texts the fragments of the part are drawn from (all contain CJK).
Texts == {"jp1", "jp2"}

VARIABLES
    \* ---- batch (TranslateDrawingFile)
    phase,        \* "idle" | "running" | "returned"
    n,            \* len(matches)
    K,            \* st.maxConcurrentRequests
    texts,        \* texts[i]: capture group of match i
    pc,           \* pc[i]: position of task goroutine i
    ctxDone,      \* st.ctx / ctx is cancelled
    childDone,    \* childCancel() has been called
    semCur,       \* semaphore.Weighted.cur
    doneCount,    \* doneCount (atomic)
    cur,          \* cur[i]: the task's `current`
    tres,         \* tres[i]: what translateFunc returned to task i
    attempt,      \* attempt[i]: TranslateText's loop variable
    cache,        \* t.cache: the set of texts that have an entry
    errCh,        \* errCh: buffered channel of capacity 1
    results,      \* results[i].translated
    file,         \* content of the part file on disk
    ret,          \* what TranslateDrawingFile returned
    \* ---- observation (history) variables
    progress,     \* the onProgress calls in the order they were delivered
    backendCalls, \* backendCalls[t]: Chat.Completions.New calls made for text t
    late,         \* tasks that held no slot yet when childCancel() first ran
    invoked,      \* tasks that called translateFunc
    sendOrder,    \* tasks in the order they reached the errCh send
    \* ---- text extractor (Extract, then Apply on what it returned)
    xStage,       \* "input" | "extracted" | "applied"
    xContent,     \* the part's content handed to Extract
    xType,        \* the part name (xmlType)
    xCJK,         \* ExtractorConfig.CJKOnly
    xOut,         \* the content Extract returned
    xItems,       \* the items Extract returned
    xTrans,       \* the translations handed to Apply
    xApplied,     \* what Apply returned
    \* ---- file pipeline (FileProcessor.ProcessFile)
    pStage,       \* position in ProcessFile
    pEntries,     \* r.File: the names of the input archive's entries
    pIdx,         \* index of the entry the loop is at
    pNew,         \* newContent of the entry being processed
    pOutBefore,   \* a file existed at outputPath before the run
    pOutExists,   \* a file exists at outputPath
    pOutEntries,  \* the entries written to the output archive so far
    pOutClosed,   \* the archive's central directory has been written
    pOutTouched,  \* the run created or truncated the file at outputPath
    pRet,         \* what ProcessFile returned
    pAsked,       \* the Translate calls made, in order: part name and text
    \* ---- Translator.TranslateText, called by concurrent tasks
    tPc,          \* tPc[c]: position of caller c in TranslateText
    tText,        \* tText[c]: textToTranslate
    tGate,        \* t.cfg.Client.OnlyTranslateCJK
    tCtxDone,     \* ctx is cancelled
    tAttempt,     \* tAttempt[c]: attempt; the backend calls c has made
    tRet,         \* tRet[c]: the error TranslateText returned, or OkRes
    tVal,         \* tVal[c]: the string TranslateText returned
    tCache,       \* t.cache: text -> translation, NoEntry when absent
    tLooked,      \* callers that reached t.cache.Get
    tEvents,      \* callers whose EventError was sent to t.events, in order
    \* ---- LLMService.Translate, called by concurrent tasks
    lRev,         \* which revision of llmservice.go runs
    lPc,          \* lPc[c]: position of caller c in Translate
    lText,        \* lText[c]: text
    lTry,         \* lTry[c]: the retry loop's i
    lRet,         \* lRet[c]: the error Translate returned, or OkRes
    lVal,         \* lVal[c]: the string Translate returned
    lCache,       \* s.cache
    lCtxDone,     \* ctx is cancelled
    lForceStream, \* s.forceStreamModels[s.config.Model]
    lCalls,       \* lCalls[c]: requests c has sent to the backend
    lLast,        \* lLast[c]: err of the last answer to c's standard request
    \* ---- the document runs, one record each
    shapes,       \* a TranslateShapes / TranslateDocument call
    sheets,       \* a TranslateSheetNames call
    run,          \* a ProcessFile run of the core translator
    ftx,          \* a TranslateFileTexts call
    cells,        \* a TranslateCells call
    rt,           \* a RunTranslation call
    capi,         \* the exported C interface: its task registry and calls
    win           \* the Qt MainWindow

batchVars == <<phase, n, K, texts, pc, ctxDone, childDone, semCur, doneCount,
               cur, tres, attempt, cache, errCh, results, file, ret, progress,
               backendCalls, late, invoked, sendOrder>>
xVars == <<xStage, xContent, xType, xCJK, xOut, xItems, xTrans, xApplied>>
pVars == <<pStage, pEntries, pIdx, pNew, pOutBefore, pOutExists, pOutEntries,
           pOutClosed, pOutTouched, pRet, pAsked>>
tVars == <<tPc, tText, tGate, tCtxDone, tAttempt, tRet, tVal, tCache, tLooked,
           tEvents>>
lVars == <<lRev, lPc, lText, lTry, lRet, lVal, lCache, lCtxDone, lForceStream,
           lCalls, lLast>>
uVars == <<cells, rt, capi, win>>
wVars == <<shapes, sheets, run, ftx, uVars>>
vars == <<batchVars, xVars, pVars, tVars, lVars, wVars>>

Tasks == 1..n

\* ------------------------------------------------------------ pure helpers
\* The backend's translation of a text.
Tr(t) == <<"tr", t>>

\* html.EscapeString, kept symbolic in the batch model.
Esc(x) == <<"esc">> \o x

\* The original markup of fragment i: <a:t>text</a:t>.
Orig(t) == [tag |-> "a:t", body |-> <<t>>, pos |-> 0]

\* fmt.Sprintf("<a:t>%s</a:t>", escapedTranslated)
Rebuilt(x) == [tag |-> "a:t", body |-> Esc(x), pos |-> 0]

\* The part's content: gap, fragment, gap, fragment, ..., gap.  Offsets are
\* token offsets, 0-based and half-open as in the Go code.
Gap(j) == [tag |-> "gap", body |-> <<>>, pos |-> j]
StrContent(tx, m) ==
    [j \in 1..(2 * m + 1) |-> IF j % 2 = 0 THEN Orig(tx[j \div 2]) ELSE Gap(j)]

\* matches[i][0], matches[i][1]
MatchStart(i) == 2 * i - 1
MatchEnd(i) == 2 * i

\* strContent[a:b]
Slice(s, a, b) == IF b <= a THEN <<>> ELSE SubSeq(s, a + 1, b)

\* The reassembly loop over results, then the tail.
RECURSIVE Rebuild(_, _, _, _, _)
Rebuild(content, res, i, last, acc) ==
    IF i > Len(res)
    THEN acc \o Slice(content, last, Len(content))
    ELSE Rebuild(content, res, i + 1, res[i].end,
                 acc \o Slice(content, last, res[i].start) \o <<res[i].translated>>)

\* childCtx.Done(): childCtx is derived from st.ctx by context.WithCancel.
ParentOnlyDone == ctxDone
ChildOnlyDone == childDone
ChildCtxDone == ctxDone \/ childDone

\* Values of Go's error / result pairs.  ctx.Err() is one shared value; every
\* LLMError is a fresh value built by the task that exhausted its attempts.
CtxErr == [kind |-> "ctx", from |-> 0]
LLMErr(i) == [kind |-> "llm", from |-> i]
IOErr == [kind |-> "io", from |-> 0]
NoRes == [kind |-> "none", from |-> 0]
OkRes == [kind |-> "ok", from |-> 0]
Nil == [kind |-> "nil", from |-> 0]
IsErr(r) == r.kind \in {"ctx", "llm", "io"}

\* strings.TrimSpace(textToTranslate) == ""
IsBlank(t) == t \in {"", " "}
\* core.IsCJKText
IsCJKText(t) == t \in {"jp1", "jp2"}
\* t.cfg.Client.OnlyTranslateCJK (config default)
OnlyTranslateCJK == TRUE

\* What translateFunc handed back to a task that got no error.
TranslatedOf(i) ==
    CASE tres[i].kind = "blank" -> <<>>
      [] tres[i].kind = "same" -> <<texts[i]>>
      [] OTHER -> Tr(texts[i])

\* sem.Acquire's fast path: s.size - s.cur >= n
SemUnbounded == TRUE
SemFree == semCur < K

\* results[i] = TranslatedResult{...}: the slot a task writes.
SlotByCompletion(i, current) == current
ResultSlot(i, current) == i

\* select { case errCh <- tranErr: default: } on a channel of capacity 1
SendOverwrite(ch, e) == <<e>>
TrySend(ch, e) == IF Len(ch) < 1 THEN Append(ch, e) ELSE ch

\* ================================================= text extractor (pure)
\* Contents are sequences of one-character strings; an offset is 0-based and
\* a span half-open, as in Go.  "K" stands for a Han character (U+4E2D).

\* <t>
LitOpenT == <<"<", "t", ">">>
\* </t>
LitCloseT == <<"<", "/", "t", ">">>
\* <a:t>
LitOpenAT == <<"<", "a", ":", "t", ">">>
\* </a:t>
LitCloseAT == <<"<", "/", "a", ":", "t", ">">>
\* <w:t
LitOpenWT == <<"<", "w", ":", "t">>
\* </w:t>
LitCloseWT == <<"<", "/", "w", ":", "t", ">">>
\* <sheet name="
LitSheet == <<"<", "s", "h", "e", "e", "t", " ", "n", "a", "m", "e", "=", "\"">>
\* <rPh
LitOpenRPh == <<"<", "r", "P", "h">>
\* </rPh>
LitCloseRPh == <<"<", "/", "r", "P", "h", ">">>
\* <phoneticPr
LitPhoneticPr == <<"<", "p", "h", "o", "n", "e", "t", "i", "c", "P", "r">>

\* Unicode classes of the characters that occur in the modelled contents.
NumberChars == {"1"}
PunctChars == {"&", ";", "/", ":", "\"", "#", "'"}
SymbolChars == {"<", ">", "="}
SpaceChars == {" ", "\n"}
CJKChars == {"K"}
\* \w of the regexp package: [0-9A-Za-z_]
WordChars == {"1", "a", "b", "e", "h", "i", "l", "m", "n", "o", "p", "r", "s",
              "t", "w", "x", "y", "c", "P", "X"}

Min(S) == CHOOSE x \in S : \A y \in S : x <= y

\* s[p:p+len(lit)] == lit
IsPrefixAt(s, p, lit) ==
    /\ p + Len(lit) <= Len(s)
    /\ \A k \in 1..Len(lit) : s[p + k] = lit[k]

\* The first offset q >= from where lit starts, every character of s[from:q]
\* being one "." matches (no "\n" unless dotAll); -1 when there is none.
FindLit(s, from, lit, dotAll) ==
    LET cands == {q \in from..(Len(s) - Len(lit)) :
                    /\ IsPrefixAt(s, q, lit)
                    /\ dotAll \/ \A k \in (from + 1)..q : s[k] # "\n"}
    IN IF cands = {} THEN -1 ELSE Min(cands)

\* The first offset q >= from with s[q] == c; -1 when there is none.
FindChar(s, from, c) ==
    LET cands == {q \in from..(Len(s) - 1) : s[q + 1] = c}
    IN IF cands = {} THEN -1 ELSE Min(cands)

\* \b after a literal that ends in a word character, at offset p.
WordBoundaryAt(s, p) == p >= Len(s) \/ s[p + 1] \notin WordChars

NoMatch == [ok |-> FALSE, ms |-> 0, me |-> 0, ts |-> 0, te |-> 0]

\* <t>(.*?)</t> and <a:t>(.*?)</a:t> anchored at offset p.
MatchPlainAt(s, p, open, close) ==
    IF ~IsPrefixAt(s, p, open) THEN NoMatch
    ELSE LET q == FindLit(s, p + Len(open), close, FALSE)
         IN IF q = -1 THEN NoMatch
            ELSE [ok |-> TRUE, ms |-> p, me |-> q + Len(close),
                  ts |-> p + Len(open), te |-> q]

\* <w:t\b[^>]*?>(.*?)</w:t> anchored at offset p ((?s)<rPh\b[^>]*?>.*?</rPh>
\* has the same shape with dotAll).
MatchTaggedAt(s, p, open, close, dotAll) ==
    IF ~(IsPrefixAt(s, p, open) /\ WordBoundaryAt(s, p + Len(open)))
    THEN NoMatch
    ELSE LET g == FindChar(s, p + Len(open), ">")
         IN IF g = -1 THEN NoMatch
            ELSE LET q == FindLit(s, g + 1, close, dotAll)
                 IN IF q = -1 THEN NoMatch
                    ELSE [ok |-> TRUE, ms |-> p, me |-> q + Len(close),
                          ts |-> g + 1, te |-> q]

\* <w:t[^>]*>(.*?)</w:t> of the legacy document translator, anchored at
\* offset p: no \b after the tag name.
MatchLooseAt(s, p, open, close) ==
    IF ~IsPrefixAt(s, p, open) THEN NoMatch
    ELSE LET g == FindChar(s, p + Len(open), ">")
         IN IF g = -1 THEN NoMatch
            ELSE LET q == FindLit(s, g + 1, close, FALSE)
                 IN IF q = -1 THEN NoMatch
                    ELSE [ok |-> TRUE, ms |-> p, me |-> q + Len(close),
                          ts |-> g + 1, te |-> q]

\* <sheet name="([^"]+?)"[^>]*?> anchored at offset p.
MatchSheetAt(s, p) ==
    IF ~IsPrefixAt(s, p, LitSheet) THEN NoMatch
    ELSE LET a == p + Len(LitSheet)
         IN IF a >= Len(s) \/ s[a + 1] = "\"" THEN NoMatch
            ELSE LET q == FindChar(s, a + 1, "\"")
                 IN IF q = -1 THEN NoMatch
                    ELSE LET g == FindChar(s, q + 1, ">")
                         IN IF g = -1 THEN NoMatch
                            ELSE [ok |-> TRUE, ms |-> p, me |-> g + 1,
                                  ts |-> a, te |-> q]

\* (?s)<phoneticPr\b[^>]*?/?> anchored at offset p.
MatchPhoneticPrAt(s, p) ==
    IF ~(IsPrefixAt(s, p, LitPhoneticPr)
         /\ WordBoundaryAt(s, p + Len(LitPhoneticPr)))
    THEN NoMatch
    ELSE LET g == FindChar(s, p + Len(LitPhoneticPr), ">")
         IN IF g = -1 THEN NoMatch
            ELSE [ok |-> TRUE, ms |-> p, me |-> g + 1, ts |-> p, te |-> p]

\* The compiled patterns of Extract and removePhoneticAnnotations.
MatchAt(pat, s, p) ==
    CASE pat = "w:t" -> MatchTaggedAt(s, p, LitOpenWT, LitCloseWT, FALSE)
      [] pat = "t" -> MatchPlainAt(s, p, LitOpenT, LitCloseT)
      [] pat = "a:t" -> MatchPlainAt(s, p, LitOpenAT, LitCloseAT)
      [] pat = "sheet" -> MatchSheetAt(s, p)
      [] pat = "rPh" -> MatchTaggedAt(s, p, LitOpenRPh, LitCloseRPh, TRUE)
      [] pat = "phoneticPr" -> MatchPhoneticPrAt(s, p)

\* re.FindAllStringSubmatchIndex(s, -1): leftmost matches, none overlapping.
RECURSIVE FindAllFrom(_, _, _)
FindAllFrom(pat, s, from) ==
    LET starts == {p \in from..(Len(s) - 1) : MatchAt(pat, s, p).ok}
    IN IF starts = {} THEN <<>>
       ELSE LET m == MatchAt(pat, s, Min(starts))
            IN <<m>> \o FindAllFrom(pat, s, m.me)

FindAll(pat, s) == FindAllFrom(pat, s, 0)

\* re.ReplaceAllString(s, ""): what is left between the matches.
RECURSIVE CutMatches(_, _, _, _)
CutMatches(s, ms, i, last) ==
    IF i > Len(ms) THEN Slice(s, last, Len(s))
    ELSE Slice(s, last, ms[i].ms) \o CutMatches(s, ms, i + 1, ms[i].me)

ReplaceAllEmpty(pat, s) == CutMatches(s, FindAll(pat, s), 1, 0)

\* removePhoneticAnnotations
removePhoneticAnnotations(content) ==
    ReplaceAllEmpty("phoneticPr", ReplaceAllEmpty("rPh", content))

\* html.EscapeString
EscapeChar(c) ==
    CASE c = "&" -> <<"&", "a", "m", "p", ";">>
      [] c = "'" -> <<"&", "#", "3", "9", ";">>
      [] c = "<" -> <<"&", "l", "t", ";">>
      [] c = ">" -> <<"&", "g", "t", ";">>
      [] c = "\"" -> <<"&", "#", "3", "4", ";">>
      [] OTHER -> <<c>>

RECURSIVE EscapeString(_)
EscapeString(s) ==
    IF s = <<>> THEN <<>> ELSE EscapeChar(Head(s)) \o EscapeString(Tail(s))

\* html.UnescapeString, for the entities that occur in the modelled contents.
Entities == {[ent |-> <<"&", "a", "m", "p", ";">>, ch |-> "&"],
             [ent |-> <<"&", "l", "t", ";">>, ch |-> "<"],
             [ent |-> <<"&", "g", "t", ";">>, ch |-> ">"],
             [ent |-> <<"&", "#", "3", "4", ";">>, ch |-> "\""],
             [ent |-> <<"&", "#", "3", "9", ";">>, ch |-> "'"]}

RECURSIVE UnescapeFrom(_, _)
UnescapeFrom(s, p) ==
    IF p >= Len(s) THEN <<>>
    ELSE LET hits == {e \in Entities : IsPrefixAt(s, p, e.ent)}
         IN IF hits = {} THEN <<s[p + 1]>> \o UnescapeFrom(s, p + 1)
            ELSE LET e == CHOOSE e \in hits : TRUE
                 IN <<e.ch>> \o UnescapeFrom(s, p + Len(e.ent))

UnescapeString(s) == UnescapeFrom(s, 0)

\* strings.TrimSpace
RECURSIVE TrimLeft(_)
TrimLeft(s) ==
    IF s # <<>> /\ Head(s) \in SpaceChars THEN TrimLeft(Tail(s)) ELSE s
RECURSIVE TrimRight(_)
TrimRight(s) ==
    IF s # <<>> /\ s[Len(s)] \in SpaceChars
    THEN TrimRight(SubSeq(s, 1, Len(s) - 1)) ELSE s
TrimSpace(s) == TrimRight(TrimLeft(s))

\* IsValidTextContent
IsValidTextContent(s) ==
    LET trimmed == TrimSpace(s)
    IN /\ trimmed # <<>>
       /\ \E k \in 1..Len(trimmed) :
             trimmed[k] \notin
                (NumberChars \cup PunctChars \cup SymbolChars \cup SpaceChars)

\* ContainsCJK
ContainsCJK(s) == \E k \in 1..Len(s) : s[k] \in CJKChars

\* part_003:198  const maxRunes = 31
MaxSheetNameRunes == 31

\* truncateSheetName
truncateSheetName(name) ==
    IF Len(name) <= MaxSheetNameRunes THEN name
    ELSE SubSeq(name, 1, MaxSheetNameRunes)

\* strings.Contains(xmlType, ...) for the part names of the model.
IsWordPart(xmlType) ==
    xmlType \in {"word/document.xml", "word/header1.xml", "word/footer1.xml"}
IsSharedStrings(xmlType) == xmlType = "xl/sharedStrings.xml"
IsDrawing(xmlType) == xmlType = "xl/drawings/drawing1.xml"
IsWorkbook(xmlType) == xmlType = "xl/workbook.xml"

\* A choice of pattern that falls back to the shared-strings pattern.
PatternOfLoose(xmlType) ==
    IF IsWordPart(xmlType) THEN "w:t"
    ELSE IF IsDrawing(xmlType) THEN "a:t"
    ELSE IF IsWorkbook(xmlType) THEN "sheet"
    ELSE "t"

\* The pattern Extract picks for a part name.
PatternOf(xmlType) ==
    IF IsWordPart(xmlType) THEN "w:t"
    ELSE IF IsSharedStrings(xmlType) THEN "t"
    ELSE IF IsDrawing(xmlType) THEN "a:t"
    ELSE IF IsWorkbook(xmlType) THEN "sheet"
    ELSE "none"

\* The content as it came in, phonetic annotations and all.
BaselineUnstripped(content, xmlType) == content

\* The content Extract works on and returns: sharedStrings.xml loses its
\* phonetic annotations first.
Baseline(content, xmlType) ==
    IF PatternOf(xmlType) = "t" THEN removePhoneticAnnotations(content)
    ELSE content

\* The content the pattern is matched against.
MatchOriginal(content, xmlType) == content
MatchBase(content, xmlType) == Baseline(content, xmlType)

\* The loop of Extract over the matches: unescape, filter, collect.
RECURSIVE CollectItems(_, _, _, _)
CollectItems(s, ms, i, cjkOnly) ==
    IF i > Len(ms) THEN <<>>
    ELSE LET unescaped == UnescapeString(Slice(s, ms[i].ts, ms[i].te))
             keep == /\ IsValidTextContent(unescaped)
                     /\ cjkOnly => ContainsCJK(unescaped)
         IN (IF keep
             THEN <<[Text |-> unescaped, MatchStart |-> ms[i].ms,
                     MatchEnd |-> ms[i].me, TextStart |-> ms[i].ts,
                     TextEnd |-> ms[i].te]>>
             ELSE <<>>)
            \o CollectItems(s, ms, i + 1, cjkOnly)

\* Extractor.Extract: the returned content and items.
Extract(content, xmlType, cjkOnly) ==
    IF PatternOf(xmlType) = "none"
    THEN [content |-> content, items |-> <<>>]
    ELSE LET s == MatchBase(content, xmlType)
         IN [content |-> Baseline(content, xmlType),
             items |-> CollectItems(s, FindAll(PatternOf(xmlType), s), 1,
                                    cjkOnly)]

\* The translation as handed to Apply, cut to a sheet name's length but not
\* escaped.
ReplacementRaw(xmlType, translated) ==
    IF IsWorkbook(xmlType) THEN truncateSheetName(translated) ELSE translated
\* What Apply writes for one translation: truncated for a sheet name, then
\* escaped.
Replacement(xmlType, translated) ==
    EscapeString(IF IsWorkbook(xmlType) THEN truncateSheetName(translated)
                 ELSE translated)

\* The string-builder loop of Apply.
RECURSIVE ApplyLoop(_, _, _, _, _, _)
ApplyLoop(content, xmlType, items, translations, i, lastIndex) ==
    IF i > Len(items) THEN Slice(content, lastIndex, Len(content))
    ELSE Slice(content, lastIndex, items[i].MatchStart)
         \o Slice(content, items[i].MatchStart, items[i].TextStart)
         \o Replacement(xmlType, translations[i])
         \o Slice(content, items[i].TextEnd, items[i].MatchEnd)
         \o ApplyLoop(content, xmlType, items, translations, i + 1,
                      items[i].MatchEnd)

\* len(items) != len(translations), and a check that only notices missing
\* translations.
CountShort(items, translations) == Len(items) > Len(translations)
CountMismatch(items, translations) == Len(items) # Len(translations)

\* Extractor.Apply: the returned content and whether it failed.
Apply(content, xmlType, items, translations) ==
    IF CountMismatch(items, translations)
    THEN [content |-> <<>>, err |-> TRUE]
    ELSE IF Len(items) = 0 THEN [content |-> content, err |-> FALSE]
    ELSE [content |-> ApplyLoop(content, xmlType, items, translations, 1, 0),
          err |-> FALSE]

\* ------------------------------------------------------------------- Init
BatchInit ==
    /\ phase = "idle"
    /\ n \in 0..MaxFragments
    /\ K \in 1..MaxK
    /\ texts \in [1..n -> Texts]
    /\ pc = [i \in 1..n |-> "pre"]
    /\ ctxDone = FALSE
    /\ childDone = FALSE
    /\ semCur = 0
    /\ doneCount = 0
    /\ cur = [i \in 1..n |-> 0]
    /\ tres = [i \in 1..n |-> NoRes]
    /\ attempt = [i \in 1..n |-> 0]
    /\ cache = {}
    /\ errCh = <<>>
    /\ results = <<>>
    /\ file = StrContent(texts, n)
    /\ ret = NoRes
    /\ progress = <<>>
    /\ backendCalls = [t \in Texts |-> 0]
    /\ late = {}
    /\ invoked = {}
    /\ sendOrder = <<>>

\* The batch at rest, for the specifications that do not run it.
BatchIdle ==
    /\ phase = "returned"
    /\ n = 0
    /\ K = 1
    /\ texts = <<>>
    /\ pc = <<>>
    /\ ctxDone = FALSE
    /\ childDone = FALSE
    /\ semCur = 0
    /\ doneCount = 0
    /\ cur = <<>>
    /\ tres = <<>>
    /\ attempt = <<>>
    /\ cache = {}
    /\ errCh = <<>>
    /\ results = <<>>
    /\ file = <<>>
    /\ ret = Nil
    /\ progress = <<>>
    /\ backendCalls = [t \in Texts |-> 0]
    /\ late = {}
    /\ invoked = {}
    /\ sendOrder = <<>>

\* The extractor at rest, for the specifications that do not run it.
ExtractIdle ==
    /\ xStage = "idle"
    /\ xContent = <<>>
    /\ xType = "none"
    /\ xCJK = FALSE
    /\ xOut = <<>>
    /\ xItems = <<>>
    /\ xTrans = <<>>
    /\ xApplied = [content |-> <<>>, err |-> FALSE]

\* The file pipeline at rest (specifications about the other components).
PipeIdle ==
    /\ pStage = "idle"
    /\ pEntries = <<>>
    /\ pIdx = 0
    /\ pNew = <<>>
    /\ pOutBefore = FALSE
    /\ pOutExists = FALSE
    /\ pOutEntries = <<>>
    /\ pOutClosed = FALSE
    /\ pOutTouched = FALSE
    /\ pRet = NoRes
    /\ pAsked = <<>>

\* No TranslateText call and no LLMService call is under way.
TextIdle ==
    /\ tPc = <<>>
    /\ tText = <<>>
    /\ tGate = FALSE
    /\ tCtxDone = FALSE
    /\ tAttempt = <<>>
    /\ tRet = <<>>
    /\ tVal = <<>>
    /\ tCache = <<>>
    /\ tLooked = {}
    /\ tEvents = <<>>

ServiceIdle ==
    /\ lRev = 0
    /\ lPc = <<>>
    /\ lText = <<>>
    /\ lTry = <<>>
    /\ lRet = <<>>
    /\ lVal = <<>>
    /\ lCache = <<>>
    /\ lCtxDone = FALSE
    /\ lForceStream = FALSE
    /\ lCalls = <<>>
    /\ lLast = <<>>

\* No document run is under way.
NoRun == <<>>
FrontIdle == cells = NoRun /\ rt = NoRun /\ capi = NoRun /\ win = NoRun
RunsIdle ==
    /\ shapes = NoRun /\ sheets = NoRun /\ run = NoRun /\ ftx = NoRun
    /\ FrontIdle

Init ==
    BatchInit /\ ExtractIdle /\ PipeIdle /\ TextIdle /\ ServiceIdle /\ RunsIdle

\* ---------------------------------------------------------- batch actions
\* The caller cancels the context handed to the translator.
CancelCtx ==
    /\ phase # "returned"
    /\ ~ctxDone
    /\ ctxDone' = TRUE
    /\ UNCHANGED <<phase, n, K, texts, pc, childDone, semCur, doneCount, cur,
                   tres, attempt, cache, errCh, results, file, ret, progress,
                   backendCalls, late, invoked, sendOrder>>
    /\ UNCHANGED <<xVars, pVars, tVars, lVars, wVars>>

\* TranslateDrawingFile up to the spawn loop: the entry check of the context,
\* reading the part, the no-match return, the pre-filled result slots.
StartBatch ==
    /\ phase = "idle"
    /\ \/ /\ ctxDone
          /\ ret' = CtxErr
          /\ phase' = "returned"
          /\ UNCHANGED results
       \/ /\ ~ctxDone
          /\ ret' = IOErr
          /\ phase' = "returned"
          /\ UNCHANGED results
       \/ /\ ~ctxDone
          /\ n = 0
          /\ ret' = Nil
          /\ phase' = "returned"
          /\ UNCHANGED results
       \/ /\ ~ctxDone
          /\ n > 0
          /\ results' = [i \in 1..n |->
                            [start |-> MatchStart(i), end |-> MatchEnd(i),
                             translated |-> Orig(texts[i])]]
          /\ phase' = "running"
          /\ UNCHANGED ret
    /\ UNCHANGED <<n, K, texts, pc, ctxDone, childDone, semCur, doneCount, cur,
                   tres, attempt, cache, errCh, file, progress, backendCalls,
                   late, invoked, sendOrder>>
    /\ UNCHANGED <<xVars, pVars, tVars, lVars, wVars>>

\* select { case <-childCtx.Done(): return; default: }  before Acquire
PreCheck(i) ==
    /\ phase = "running"
    /\ pc[i] = "pre"
    /\ pc' = [pc EXCEPT ![i] = IF ChildCtxDone THEN "done" ELSE "acq"]
    /\ UNCHANGED <<phase, n, K, texts, ctxDone, childDone, semCur, doneCount,
                   cur, tres, attempt, cache, errCh, results, file, ret,
                   progress, backendCalls, late, invoked, sendOrder>>
    /\ UNCHANGED <<xVars, pVars, tVars, lVars, wVars>>

\* sem.Acquire(childCtx, 1): fails when the context is done, takes a slot
\* when one is free, and blocks otherwise.
Acquire(i) ==
    /\ phase = "running"
    /\ pc[i] = "acq"
    /\ \/ /\ ChildCtxDone
          /\ pc' = [pc EXCEPT ![i] = "done"]
          /\ UNCHANGED semCur
       \/ /\ ~ChildCtxDone
          /\ SemFree
          /\ semCur' = semCur + 1
          /\ pc' = [pc EXCEPT ![i] = "post"]
    /\ UNCHANGED <<phase, n, K, texts, ctxDone, childDone, doneCount, cur,
                   tres, attempt, cache, errCh, results, file, ret, progress,
                   backendCalls, late, invoked, sendOrder>>
    /\ UNCHANGED <<xVars, pVars, tVars, lVars, wVars>>

\* The check after Acquire; a return runs the deferred sem.Release(1).
PostCheck(i) ==
    /\ phase = "running"
    /\ pc[i] = "post"
    /\ IF ChildCtxDone
       THEN /\ pc' = [pc EXCEPT ![i] = "done"]
            /\ semCur' = semCur - 1
       ELSE /\ pc' = [pc EXCEPT ![i] = "call"]
            /\ UNCHANGED semCur
    /\ UNCHANGED <<phase, n, K, texts, ctxDone, childDone, doneCount, cur,
                   tres, attempt, cache, errCh, results, file, ret, progress,
                   backendCalls, late, invoked, sendOrder>>
    /\ UNCHANGED <<xVars, pVars, tVars, lVars, wVars>>

\* translateFunc(text): the closure of TranslateExcelFile checks ctx, then
\* TranslateText checks ctx, the blank text, the CJK gate and the cache.
CallTranslate(i) ==
    /\ phase = "running"
    /\ pc[i] = "call"
    /\ invoked' = invoked \cup {i}
    /\ IF ctxDone
       THEN /\ tres' = [tres EXCEPT ![i] = CtxErr]
            /\ pc' = [pc EXCEPT ![i] = "count"]
       ELSE IF IsBlank(texts[i])
       THEN /\ tres' = [tres EXCEPT ![i] = [kind |-> "blank", from |-> 0]]
            /\ pc' = [pc EXCEPT ![i] = "count"]
       ELSE IF OnlyTranslateCJK /\ ~IsCJKText(texts[i])
       THEN /\ tres' = [tres EXCEPT ![i] = [kind |-> "same", from |-> 0]]
            /\ pc' = [pc EXCEPT ![i] = "count"]
       ELSE IF texts[i] \in cache
       THEN /\ tres' = [tres EXCEPT ![i] = OkRes]
            /\ pc' = [pc EXCEPT ![i] = "count"]
       ELSE /\ pc' = [pc EXCEPT ![i] = "precall"]
            /\ UNCHANGED tres
    /\ UNCHANGED <<phase, n, K, texts, ctxDone, childDone, semCur, doneCount,
                   cur, attempt, cache, errCh, results, file, ret, progress,
                   backendCalls, late, sendOrder>>
    /\ UNCHANGED <<xVars, pVars, tVars, lVars, wVars>>

\* TranslateText after the cache miss: the second check of ctx, then the
\* first attempt's Chat.Completions.New goes out.
PreCall(i) ==
    /\ phase = "running"
    /\ pc[i] = "precall"
    /\ IF ctxDone
       THEN /\ tres' = [tres EXCEPT ![i] = CtxErr]
            /\ pc' = [pc EXCEPT ![i] = "count"]
            /\ UNCHANGED <<attempt, backendCalls>>
       ELSE /\ attempt' = [attempt EXCEPT ![i] = 1]
            /\ backendCalls' = [backendCalls EXCEPT ![texts[i]] = @ + 1]
            /\ pc' = [pc EXCEPT ![i] = "inflight"]
            /\ UNCHANGED tres
    /\ UNCHANGED <<phase, n, K, texts, ctxDone, childDone, semCur, doneCount,
                   cur, cache, errCh, results, file, ret, progress, late,
                   invoked, sendOrder>>
    /\ UNCHANGED <<xVars, pVars, tVars, lVars, wVars>>

\* The backend answers the attempt in flight with a non-empty choice:
\* the translation is cached under the input text and returned.
BackendOk(i) ==
    /\ phase = "running"
    /\ pc[i] = "inflight"
    /\ cache' = cache \cup {texts[i]}
    /\ tres' = [tres EXCEPT ![i] = OkRes]
    /\ pc' = [pc EXCEPT ![i] = "count"]
    /\ UNCHANGED <<phase, n, K, texts, ctxDone, childDone, semCur, doneCount,
                   cur, attempt, errCh, results, file, ret, progress,
                   backendCalls, late, invoked, sendOrder>>
    /\ UNCHANGED <<xVars, pVars, tVars, lVars, wVars>>

\* The attempt in flight fails (an error, among them the cancelled request,
\* or an empty answer): wait for the retry, or give up after the last one
\* with an LLMError.
BackendFail(i) ==
    /\ phase = "running"
    /\ pc[i] = "inflight"
    /\ IF attempt[i] < MaxAttempts
       THEN /\ pc' = [pc EXCEPT ![i] = "wait"]
            /\ UNCHANGED tres
       ELSE /\ tres' = [tres EXCEPT ![i] = LLMErr(i)]
            /\ pc' = [pc EXCEPT ![i] = "count"]
    /\ UNCHANGED <<phase, n, K, texts, ctxDone, childDone, semCur, doneCount,
                   cur, attempt, cache, errCh, results, file, ret, progress,
                   backendCalls, late, invoked, sendOrder>>
    /\ UNCHANGED <<xVars, pVars, tVars, lVars, wVars>>

\* select { case <-ctx.Done(): return "", ctx.Err()
\*          case <-time.After(200 * time.Millisecond): }
RetryWait(i) ==
    /\ phase = "running"
    /\ pc[i] = "wait"
    /\ IF ctxDone
       THEN /\ tres' = [tres EXCEPT ![i] = CtxErr]
            /\ pc' = [pc EXCEPT ![i] = "count"]
            /\ UNCHANGED <<attempt, backendCalls>>
       ELSE /\ attempt' = [attempt EXCEPT ![i] = @ + 1]
            /\ backendCalls' = [backendCalls EXCEPT ![texts[i]] = @ + 1]
            /\ pc' = [pc EXCEPT ![i] = "inflight"]
            /\ UNCHANGED tres
    /\ UNCHANGED <<phase, n, K, texts, ctxDone, childDone, semCur, doneCount,
                   cur, cache, errCh, results, file, ret, progress, late,
                   invoked, sendOrder>>
    /\ UNCHANGED <<xVars, pVars, tVars, lVars, wVars>>

\* current := int(atomic.AddInt64(&doneCount, 1))
Count(i) ==
    /\ phase = "running"
    /\ pc[i] = "count"
    /\ doneCount' = doneCount + 1
    /\ cur' = [cur EXCEPT ![i] = doneCount + 1]
    /\ pc' = [pc EXCEPT ![i] = "report"]
    /\ UNCHANGED <<phase, n, K, texts, ctxDone, childDone, semCur, tres,
                   attempt, cache, errCh, results, file, ret, progress,
                   backendCalls, late, invoked, sendOrder>>
    /\ UNCHANGED <<xVars, pVars, tVars, lVars, wVars>>

\* The rest of a task whose call succeeded: the result slot, onProgress, and
\* the deferred sem.Release(1) and wg.Done().
ReportOk(i) ==
    /\ phase = "running"
    /\ pc[i] = "report"
    /\ ~IsErr(tres[i])
    /\ results' = [results EXCEPT ![ResultSlot(i, cur[i])] =
                      [start |-> MatchStart(i), end |-> MatchEnd(i),
                       translated |-> Rebuilt(TranslatedOf(i))]]
    /\ progress' = Append(progress, [task |-> i, done |-> cur[i], total |-> n,
                                      err |-> FALSE])
    /\ semCur' = semCur - 1
    /\ pc' = [pc EXCEPT ![i] = "done"]
    /\ UNCHANGED <<phase, n, K, texts, ctxDone, childDone, doneCount, cur,
                   tres, attempt, cache, errCh, file, ret, backendCalls, late,
                   invoked, sendOrder>>
    /\ UNCHANGED <<xVars, pVars, tVars, lVars, wVars>>

\* A task whose call failed: onProgress(text, "", tranErr, current, total)
ReportErr(i) ==
    /\ phase = "running"
    /\ pc[i] = "report"
    /\ IsErr(tres[i])
    /\ progress' = Append(progress, [task |-> i, done |-> cur[i], total |-> n,
                                      err |-> TRUE])
    /\ pc' = [pc EXCEPT ![i] = "cancel"]
    /\ UNCHANGED <<phase, n, K, texts, ctxDone, childDone, semCur, doneCount,
                   cur, tres, attempt, cache, errCh, results, file, ret,
                   backendCalls, late, invoked, sendOrder>>
    /\ UNCHANGED <<xVars, pVars, tVars, lVars, wVars>>

\* childCancel()
ChildCancel(i) ==
    /\ phase = "running"
    /\ pc[i] = "cancel"
    /\ childDone' = TRUE
    /\ late' = IF childDone THEN late
               ELSE {j \in Tasks : pc[j] \in {"pre", "acq"}}
    /\ pc' = [pc EXCEPT ![i] = "send"]
    /\ UNCHANGED <<phase, n, K, texts, ctxDone, semCur, doneCount, cur, tres,
                   attempt, cache, errCh, results, file, ret, progress,
                   backendCalls, invoked, sendOrder>>
    /\ UNCHANGED <<xVars, pVars, tVars, lVars, wVars>>

\* The non-blocking send of tranErr on errCh, then the return with its
\* deferred sem.Release(1) and wg.Done().
SendErr(i) ==
    /\ phase = "running"
    /\ pc[i] = "send"
    /\ errCh' = TrySend(errCh, tres[i])
    /\ sendOrder' = Append(sendOrder, i)
    /\ semCur' = semCur - 1
    /\ pc' = [pc EXCEPT ![i] = "done"]
    /\ UNCHANGED <<phase, n, K, texts, ctxDone, childDone, doneCount, cur,
                   tres, attempt, cache, results, file, ret, progress,
                   backendCalls, late, invoked>>
    /\ UNCHANGED <<xVars, pVars, tVars, lVars, wVars>>

\* wg.Wait(): every task has run its deferred wg.Done(); and a wait that
\* also ends as soon as an error is on errCh.
WaitOrFirstError == (\A i \in Tasks : pc[i] = "done") \/ Len(errCh) > 0
WaitGroupDone == \A i \in Tasks : pc[i] = "done"

\* wg.Wait() has returned: the error of errCh, else the context's error,
\* else the part is reassembled and written.
BatchReturn ==
    /\ phase = "running"
    /\ WaitGroupDone
    /\ phase' = "returned"
    /\ \/ /\ Len(errCh) > 0
          /\ ret' = errCh[1]
          /\ UNCHANGED file
       \/ /\ Len(errCh) = 0
          /\ ctxDone
          /\ ret' = CtxErr
          /\ UNCHANGED file
       \/ /\ Len(errCh) = 0
          /\ ~ctxDone
          /\ file' = Rebuild(StrContent(texts, n), results, 1, 0, <<>>)
          /\ ret' = Nil
       \/ /\ Len(errCh) = 0
          /\ ~ctxDone
          /\ file' \in {file, <<>>}
          /\ ret' = IOErr
    /\ UNCHANGED <<n, K, texts, pc, ctxDone, childDone, semCur, doneCount, cur,
                   tres, attempt, cache, errCh, results, progress,
                   backendCalls, late, invoked, sendOrder>>
    /\ UNCHANGED <<xVars, pVars, tVars, lVars, wVars>>

Next ==
    \/ CancelCtx
    \/ StartBatch
    \/ \E i \in Tasks : PreCheck(i)
    \/ \E i \in Tasks : Acquire(i)
    \/ \E i \in Tasks : PostCheck(i)
    \/ \E i \in Tasks : CallTranslate(i)
    \/ \E i \in Tasks : PreCall(i)
    \/ \E i \in Tasks : BackendOk(i)
    \/ \E i \in Tasks : BackendFail(i)
    \/ \E i \in Tasks : RetryWait(i)
    \/ \E i \in Tasks : Count(i)
    \/ \E i \in Tasks : ReportOk(i)
    \/ \E i \in Tasks : ReportErr(i)
    \/ \E i \in Tasks : ChildCancel(i)
    \/ \E i \in Tasks : SendErr(i)
    \/ BatchReturn

Spec == Init /\ [][Next]_vars

\* re.FindAllStringSubmatchIndex(strContent, -1) with the pattern of the
\* legacy document translator.
RECURSIVE FindAllRuns(_, _)
FindAllRuns(s, from) ==
    LET starts == {p \in from..(Len(s) - 1) :
                     MatchLooseAt(s, p, LitOpenWT, LitCloseWT).ok}
    IN IF starts = {} THEN <<>>
       ELSE LET m == MatchLooseAt(s, Min(starts), LitOpenWT, LitCloseWT)
            IN <<m>> \o FindAllRuns(s, m.me)

\* The reassembly of DocumentTranslator.TranslateDocumentXmlFile when every
\* task got a translation: strContent[last:r.start], then
\* fmt.Sprintf("<w:t>%s</w:t>", html.EscapeString(translated)) for each
\* match, then the tail.
RECURSIVE RebuildDocument(_, _, _, _, _)
RebuildDocument(content, ms, translations, i, last) ==
    IF i > Len(ms) THEN Slice(content, last, Len(content))
    ELSE Slice(content, last, ms[i].ms)
         \o LitOpenWT \o <<">">> \o EscapeString(translations[i]) \o LitCloseWT
         \o RebuildDocument(content, ms, translations, i + 1, ms[i].me)

\* ================================================ text extractor (SpecX)
\* The part names of the model: one per pattern, and two that Extract has
\* no pattern for.
PartNames == {"word/document.xml", "xl/sharedStrings.xml",
              "xl/drawings/drawing1.xml", "xl/workbook.xml",
              "xl/comments1.xml", "docProps/app.xml"}

\* The markup units a part's content is concatenated from.
UnitsOf(xmlType) ==
    CASE xmlType = "xl/sharedStrings.xml" ->
           \* <t>K</t>   <t>a&lt;</t>   <t>1 </t>   <rPh><t>K</t></rPh>
           \* <phoneticPr x/>
           {<<"<", "t", ">", "K", "<", "/", "t", ">">>,
            <<"<", "t", ">", "a", "&", "l", "t", ";", "<", "/", "t", ">">>,
            <<"<", "t", ">", "1", " ", "<", "/", "t", ">">>,
            <<"<", "r", "P", "h", ">", "<", "t", ">", "K", "<", "/", "t", ">",
              "<", "/", "r", "P", "h", ">">>,
            <<"<", "p", "h", "o", "n", "e", "t", "i", "c", "P", "r", " ", "x",
              "/", ">">>}
      [] xmlType = "word/document.xml" ->
           \* <w:t>K</w:t>   <w:t x="p">a&amp;</w:t>   <w:t>1</w:t>
           \* <w:tab/>   <w:p>\n
           {<<"<", "w", ":", "t", ">", "K", "<", "/", "w", ":", "t", ">">>,
            <<"<", "w", ":", "t", " ", "x", "=", "\"", "p", "\"", ">", "a",
              "&", "a", "m", "p", ";", "<", "/", "w", ":", "t", ">">>,
            <<"<", "w", ":", "t", ">", "1", "<", "/", "w", ":", "t", ">">>,
            <<"<", "w", ":", "t", "a", "b", "/", ">">>,
            <<"<", "w", ":", "p", ">", "\n">>}
      [] xmlType = "xl/drawings/drawing1.xml" ->
           \* <a:t>K</a:t>   <a:t>a</a:t>   <a:t> </a:t>   <a:t>&lt;1</a:t>
           \* <a:p>\n
           {<<"<", "a", ":", "t", ">", "K", "<", "/", "a", ":", "t", ">">>,
            <<"<", "a", ":", "t", ">", "a", "<", "/", "a", ":", "t", ">">>,
            <<"<", "a", ":", "t", ">", " ", "<", "/", "a", ":", "t", ">">>,
            <<"<", "a", ":", "t", ">", "&", "l", "t", ";", "1", "<", "/", "a",
              ":", "t", ">">>,
            <<"<", "a", ":", "p", ">", "\n">>}
      [] xmlType = "xl/workbook.xml" ->
           \* <sheet name="K" r="1"/>   <sheet name="a&amp;b"/>
           \* <sheet name="1"/>   <sheet name=""/>   <x>
           {<<"<", "s", "h", "e", "e", "t", " ", "n", "a", "m", "e", "=", "\"",
              "K", "\"", " ", "r", "=", "\"", "1", "\"", "/", ">">>,
            <<"<", "s", "h", "e", "e", "t", " ", "n", "a", "m", "e", "=", "\"",
              "a", "&", "a", "m", "p", ";", "b", "\"", "/", ">">>,
            <<"<", "s", "h", "e", "e", "t", " ", "n", "a", "m", "e", "=", "\"",
              "1", "\"", "/", ">">>,
            <<"<", "s", "h", "e", "e", "t", " ", "n", "a", "m", "e", "=", "\"",
              "\"", "/", ">">>,
            <<"<", "x", ">">>}
      [] OTHER ->
           \* <t>K</t>   <x>
           {<<"<", "t", ">", "K", "<", "/", "t", ">">>, <<"<", "x", ">">>}

RECURSIVE Concat(_)
Concat(ss) == IF ss = <<>> THEN <<>> ELSE Head(ss) \o Concat(Tail(ss))

ContentsOf(xmlType) ==
    {Concat(us) : us \in UNION {[1..k -> UnitsOf(xmlType)] : k \in 0..MaxUnits}}

\* The translations Apply is handed: a plain one, one that needs escaping,
\* and one of MaxSheetNameRunes + 1 characters.
TransPool == {<<"X">>, <<"<", "&", "\"">>,
              [k \in 1..(MaxSheetNameRunes + 1) |-> "y"]}

InitX ==
    /\ BatchIdle
    /\ PipeIdle
    /\ TextIdle
    /\ ServiceIdle
    /\ RunsIdle
    /\ xStage = "input"
    /\ xType \in PartNames
    /\ xContent \in ContentsOf(xType)
    /\ xCJK \in BOOLEAN
    /\ xOut = <<>>
    /\ xItems = <<>>
    /\ xTrans = <<>>
    /\ xApplied = [content |-> <<>>, err |-> FALSE]

\* extractedContent, items, err := extractor.Extract(content, name)
DoExtract ==
    /\ xStage = "input"
    /\ LET r == Extract(xContent, xType, xCJK)
       IN /\ xOut' = r.content
          /\ xItems' = r.items
    /\ xStage' = "extracted"
    /\ UNCHANGED <<xContent, xType, xCJK, xTrans, xApplied>>
    /\ UNCHANGED <<batchVars, pVars, tVars, lVars, wVars>>

\* newContent, err = extractor.Apply(extractedContent, name, items,
\* translations), with one translation per item.
DoApply ==
    /\ xStage = "extracted"
    /\ \E tr \in [1..Len(xItems) -> TransPool] :
          /\ xTrans' = tr
          /\ xApplied' = Apply(xOut, xType, xItems, tr)
    /\ xStage' = "applied"
    /\ UNCHANGED <<xContent, xType, xCJK, xOut, xItems>>
    /\ UNCHANGED <<batchVars, pVars, tVars, lVars, wVars>>

\* newContent, err = extractor.Apply(extractedContent, name, items,
\* translations), with one translation too few or one too many.
DoApplyMismatch ==
    /\ xStage = "extracted"
    /\ \E k \in {Len(xItems) - 1, Len(xItems) + 1} :
          /\ k >= 0
          /\ \E tr \in [1..k -> TransPool] :
                /\ xTrans' = tr
                /\ xApplied' = Apply(xOut, xType, xItems, tr)
    /\ xStage' = "mismatch"
    /\ UNCHANGED <<xContent, xType, xCJK, xOut, xItems>>
    /\ UNCHANGED <<batchVars, pVars, tVars, lVars, wVars>>

\* DocumentTranslator.TranslateDocumentXmlFile on a part of a document, every
\* translateFunc call returning a translation: nothing is written when the
\* pattern matches nowhere, else the reassembled content.
DoTranslateDocumentXml ==
    /\ xStage = "input"
    /\ IsWordPart(xType)
    /\ LET ms == FindAllRuns(xContent, 0)
       IN \E tr \in [1..Len(ms) -> TransPool] :
             /\ xTrans' = tr
             /\ xApplied' =
                   [content |-> IF Len(ms) = 0 THEN xContent
                                ELSE RebuildDocument(xContent, ms, tr, 1, 0),
                    err |-> FALSE]
    /\ xStage' = "legacy"
    /\ UNCHANGED <<xContent, xType, xCJK, xOut, xItems>>
    /\ UNCHANGED <<batchVars, pVars, tVars, lVars, wVars>>

NextX == DoExtract \/ DoApply \/ DoApplyMismatch \/ DoTranslateDocumentXml

SpecX == InitX /\ [][NextX]_vars

\* ================================================= file pipeline (SpecP)
\* The entry names an input archive is made of: a part Extract has a
\* pattern for, an XML part that is not translated, a binary part, and an
\* XML part processZipFile sends to Extract although Extract has no pattern
\* for it.
EntryNames == {"xl/sharedStrings.xml", "xl/styles.xml", "xl/media/image1.png",
               "xl/comments1.xml"}

\* The entries (zip.File) of the model: f.Name, f.Method, f.Modified.
EntryFiles ==
    {[Name |-> "xl/sharedStrings.xml", Method |-> "deflate", Modified |-> 1],
     [Name |-> "xl/sharedStrings.xml", Method |-> "store", Modified |-> 2],
     [Name |-> "xl/styles.xml", Method |-> "deflate", Modified |-> 2],
     [Name |-> "xl/media/image1.png", Method |-> "store", Modified |-> 1],
     [Name |-> "xl/comments1.xml", Method |-> "deflate", Modified |-> 1]}

\* The archives of up to MaxEntries entries.
Archives ==
    UNION {[1..m -> EntryFiles] : m \in 0..MaxEntries}

\* processZipFile's needsTranslation, on the names of EntryNames.
needsTranslation(name) ==
    name \in {"xl/sharedStrings.xml", "xl/comments1.xml"}

\* The content of an input entry.
EntryContent(name) ==
    CASE name = "xl/sharedStrings.xml" ->
           \* <t>K</t><t>1</t>
           <<"<", "t", ">", "K", "<", "/", "t", ">",
             "<", "t", ">", "1", "<", "/", "t", ">">>
      [] name = "xl/media/image1.png" -> <<"P", "N", "G">>
      [] OTHER ->
           \* <t>K</t>
           <<"<", "t", ">", "K", "<", "/", "t", ">">>

\* NewFileProcessorWithLogger: textextractor.ExtractorConfig{}
ExtractorCJKOnly == FALSE

\* What the translator answers for a text.
TranslationOf(text) == <<"E", "N">> \o text

\* texts[i] = item.Text
TextsOf(items) == [i \in 1..Len(items) |-> items[i].Text]

\* The Translate calls TranslateFileTexts makes for the first k fileTexts.
AskedFor(name, fileTexts, k) ==
    [i \in 1..k |-> [Name |-> name, Text |-> fileTexts[i]]]

\* header := &zip.FileHeader{Name, Method, Modified}, and a header that
\* carries the name only.
HeaderNameOnly(f) == [Name |-> f.Name, Method |-> "deflate", Modified |-> 0]
HeaderOf(f) == [Name |-> f.Name, Method |-> f.Method, Modified |-> f.Modified]

OpenErr == [kind |-> "open", from |-> 0]
ReadErr(i) == [kind |-> "read", from |-> i]
TranslateErr(i) == [kind |-> "translate", from |-> i]
WriteErr(i) == [kind |-> "write", from |-> i]

InitP ==
    /\ BatchIdle
    /\ ExtractIdle
    /\ TextIdle
    /\ ServiceIdle
    /\ RunsIdle
    /\ pStage = "start"
    /\ pEntries \in Archives
    /\ pIdx = 0
    /\ pNew = <<>>
    /\ pOutBefore \in BOOLEAN
    /\ pOutExists = pOutBefore
    /\ pOutEntries = <<>>
    /\ pOutClosed = pOutBefore
    /\ pOutTouched = FALSE
    /\ pRet = NoRes
    /\ pAsked = <<>>

\* The deferred w.Close() and outFile.Close() of ProcessFile, run on every
\* return after the output file was created: the central directory is
\* written and the file stays where it is.
DeferredClose(e) ==
    /\ pStage' = "returned"
    /\ pRet' = e
    /\ pOutClosed' = TRUE
    /\ UNCHANGED <<pEntries, pIdx, pNew, pOutBefore, pOutExists, pOutEntries,
                   pOutTouched>>

\* r, err := zip.OpenReader(inputPath)
OpenReader ==
    /\ pStage = "start"
    /\ \/ /\ pStage' = "opened"
          /\ UNCHANGED pRet
       \/ /\ pStage' = "returned"
          /\ pRet' = OpenErr
    /\ UNCHANGED <<pEntries, pIdx, pNew, pOutBefore, pOutExists, pOutEntries,
                   pOutClosed, pOutTouched, pAsked>>
    /\ UNCHANGED <<batchVars, xVars, tVars, lVars, wVars>>

\* os.MkdirAll(filepath.Dir(outputPath), 0755)
MkdirAll ==
    /\ pStage = "opened"
    /\ \/ /\ pStage' = "dir"
          /\ UNCHANGED pRet
       \/ /\ pStage' = "returned"
          /\ pRet' = IOErr
    /\ UNCHANGED <<pEntries, pIdx, pNew, pOutBefore, pOutExists, pOutEntries,
                   pOutClosed, pOutTouched, pAsked>>
    /\ UNCHANGED <<batchVars, xVars, tVars, lVars, wVars>>

\* outFile, err := os.Create(outputPath); w := zip.NewWriter(outFile)
CreateOutput ==
    /\ pStage = "dir"
    /\ \/ /\ pStage' = "loop"
          /\ pIdx' = 1
          /\ pOutExists' = TRUE
          /\ pOutEntries' = <<>>
          /\ pOutClosed' = FALSE
          /\ pOutTouched' = TRUE
          /\ UNCHANGED pRet
       \/ /\ pStage' = "returned"
          /\ pRet' = IOErr
          /\ UNCHANGED <<pIdx, pOutExists, pOutEntries, pOutClosed,
                         pOutTouched>>
    /\ UNCHANGED <<pEntries, pNew, pOutBefore, pAsked>>
    /\ UNCHANGED <<batchVars, xVars, tVars, lVars, wVars>>

\* processZipFile up to newContent: f.Open, io.ReadAll, then Extract,
\* TranslateFileTexts and Apply for a part that needs translation.
PrepareEntry ==
    /\ pStage = "loop"
    /\ pIdx <= Len(pEntries)
    /\ LET name == pEntries[pIdx].Name
           r == Extract(EntryContent(name), name, ExtractorCJKOnly)
           fileTexts == TextsOf(r.items)
           translations == [i \in 1..Len(fileTexts) |-> TranslationOf(fileTexts[i])]
       IN \/ \* f.Open or io.ReadAll failed
             /\ DeferredClose(ReadErr(pIdx))
             /\ UNCHANGED pAsked
          \/ \* newContent = content
             /\ ~needsTranslation(name)
             /\ pStage' = "write"
             /\ pNew' = EntryContent(name)
             /\ UNCHANGED <<pRet, pOutClosed, pAsked>>
             /\ UNCHANGED <<pEntries, pIdx, pOutBefore, pOutExists,
                            pOutEntries, pOutTouched>>
          \/ \* Extract, TranslateFileTexts and Apply succeeded
             /\ needsTranslation(name)
             /\ pStage' = "write"
             /\ pNew' = Apply(r.content, name, r.items, translations).content
             /\ pAsked' = pAsked \o AskedFor(name, fileTexts, Len(fileTexts))
             /\ UNCHANGED <<pRet, pOutClosed>>
             /\ UNCHANGED <<pEntries, pIdx, pOutBefore, pOutExists,
                            pOutEntries, pOutTouched>>
          \/ \* TranslateFileTexts failed at its k-th text
             /\ needsTranslation(name)
             /\ \E k \in 1..Len(fileTexts) :
                   pAsked' = pAsked \o AskedFor(name, fileTexts, k)
             /\ DeferredClose(TranslateErr(pIdx))
    /\ UNCHANGED <<batchVars, xVars, tVars, lVars, wVars>>

\* w.CreateHeader(header); wWrapper.Write([]byte(newContent))
WriteEntry ==
    /\ pStage = "write"
    /\ \/ /\ pOutEntries' =
                Append(pOutEntries,
                       [Name |-> HeaderOf(pEntries[pIdx]).Name,
                        Method |-> HeaderOf(pEntries[pIdx]).Method,
                        Modified |-> HeaderOf(pEntries[pIdx]).Modified,
                        Content |-> pNew])
          /\ pIdx' = pIdx + 1
          /\ pStage' = "loop"
          /\ UNCHANGED <<pRet, pOutClosed>>
          /\ UNCHANGED <<pEntries, pNew, pOutBefore, pOutExists, pOutTouched>>
       \/ DeferredClose(WriteErr(pIdx))
    /\ UNCHANGED <<batchVars, xVars, pAsked, tVars, lVars, wVars>>

\* the loop is over: return nil
ReturnNil ==
    /\ pStage = "loop"
    /\ pIdx > Len(pEntries)
    /\ DeferredClose(Nil)
    /\ UNCHANGED <<batchVars, xVars, pAsked, tVars, lVars, wVars>>

NextP ==
    \/ OpenReader
    \/ MkdirAll
    \/ CreateOutput
    \/ PrepareEntry
    \/ WriteEntry
    \/ ReturnNil

SpecP == InitP /\ [][NextP]_vars

\* =========================================== Translator.TranslateText (SpecT)
\* The tasks of one batch that hold a slot and call TranslateText.
Callers == 1..MaxCallers

\* The texts handed to TranslateText: empty, whitespace, without CJK, CJK.
EngineTexts == {"", " ", "abc", "jp1"}

\* A text without a cache entry.
NoEntry == "-"

\* What Chat.Completions.New can hand back: err, len(resp.Choices) and
\* resp.Choices[0].Message.Content.
Replies ==
    {[err |-> FALSE, choices |-> 1, content |-> "v1"],
     [err |-> FALSE, choices |-> 1, content |-> " v2"],
     [err |-> FALSE, choices |-> 1, content |-> ""],
     [err |-> FALSE, choices |-> 0, content |-> ""],
     [err |-> TRUE, choices |-> 0, content |-> ""]}

\* strings.TrimSpace on the contents of Replies.
TrimReply(content) == IF content = " v2" THEN "v2" ELSE content

\* err == nil && len(resp.Choices) > 0 && Content != ""
ReplyOk(r) == ~r.err /\ r.choices > 0 /\ r.content # ""

\* attempt < 3, and a loop that goes one attempt further.
RetryOneMore(a) == a < MaxAttempts + 1
RetryAgain(a) == a < MaxAttempts

InitT ==
    /\ BatchIdle
    /\ ExtractIdle
    /\ PipeIdle
    /\ ServiceIdle
    /\ RunsIdle
    /\ tPc = [c \in Callers |-> "start"]
    /\ tText \in [Callers -> EngineTexts]
    /\ tGate \in BOOLEAN
    /\ tCtxDone = FALSE
    /\ tAttempt = [c \in Callers |-> 0]
    /\ tRet = [c \in Callers |-> NoRes]
    /\ tVal = [c \in Callers |-> ""]
    /\ tCache = [t \in EngineTexts |-> NoEntry]
    /\ tLooked = {}
    /\ tEvents = <<>>

\* TranslateText returns (v, e) to caller c.
TReturn(c, v, e) ==
    /\ tPc' = [tPc EXCEPT ![c] = "done"]
    /\ tVal' = [tVal EXCEPT ![c] = v]
    /\ tRet' = [tRet EXCEPT ![c] = e]

\* The caller cancels ctx.
TCancel ==
    /\ ~tCtxDone
    /\ tCtxDone' = TRUE
    /\ UNCHANGED <<tPc, tText, tGate, tAttempt, tRet, tVal, tCache, tLooked,
                   tEvents>>
    /\ UNCHANGED <<batchVars, xVars, pVars, lVars, wVars>>

\* TranslateText up to the cache lookup: ctx, blank text, CJK gate,
\* t.cache.Get.
TEnter(c) ==
    /\ tPc[c] = "start"
    /\ IF tCtxDone
       THEN TReturn(c, "", CtxErr) /\ UNCHANGED tLooked
       ELSE IF IsBlank(tText[c])
       THEN TReturn(c, "", OkRes) /\ UNCHANGED tLooked
       ELSE IF tGate /\ ~IsCJKText(tText[c])
       THEN TReturn(c, tText[c], OkRes) /\ UNCHANGED tLooked
       ELSE /\ tLooked' = tLooked \cup {c}
            /\ IF tCache[tText[c]] # NoEntry
               THEN TReturn(c, tCache[tText[c]], OkRes)
               ELSE /\ tPc' = [tPc EXCEPT ![c] = "precall"]
                    /\ UNCHANGED <<tRet, tVal>>
    /\ UNCHANGED <<tText, tGate, tCtxDone, tAttempt, tCache, tEvents>>
    /\ UNCHANGED <<batchVars, xVars, pVars, lVars, wVars>>

\* The second check of ctx; then the first Chat.Completions.New goes out.
TPreCall(c) ==
    /\ tPc[c] = "precall"
    /\ IF tCtxDone
       THEN TReturn(c, "", CtxErr) /\ UNCHANGED tAttempt
       ELSE /\ tAttempt' = [tAttempt EXCEPT ![c] = 1]
            /\ tPc' = [tPc EXCEPT ![c] = "inflight"]
            /\ UNCHANGED <<tRet, tVal>>
    /\ UNCHANGED <<tText, tGate, tCtxDone, tCache, tLooked, tEvents>>
    /\ UNCHANGED <<batchVars, xVars, pVars, lVars, wVars>>

\* The backend answers the attempt in flight: a good answer is trimmed,
\* stored under the input text and returned; otherwise the loop waits for
\* a retry or, after the last attempt, goes on to report an LLMError.
TBackendReply(c) ==
    /\ tPc[c] = "inflight"
    /\ \E r \in Replies :
          IF ReplyOk(r)
          THEN /\ tCache' = [tCache EXCEPT ![tText[c]] = TrimReply(r.content)]
               /\ TReturn(c, TrimReply(r.content), OkRes)
          ELSE /\ tPc' = [tPc EXCEPT ![c] =
                             IF RetryAgain(tAttempt[c]) THEN "wait"
                             ELSE "emit"]
               /\ UNCHANGED <<tCache, tRet, tVal>>
    /\ UNCHANGED <<tText, tGate, tCtxDone, tAttempt, tLooked, tEvents>>
    /\ UNCHANGED <<batchVars, xVars, pVars, lVars, wVars>>

\* select { case <-ctx.Done(): return "", ctx.Err()
\*          case <-time.After(200 * time.Millisecond): }
TRetryWait(c) ==
    /\ tPc[c] = "wait"
    /\ IF tCtxDone
       THEN TReturn(c, "", CtxErr) /\ UNCHANGED tAttempt
       ELSE /\ tAttempt' = [tAttempt EXCEPT ![c] = @ + 1]
            /\ tPc' = [tPc EXCEPT ![c] = "inflight"]
            /\ UNCHANGED <<tRet, tVal>>
    /\ UNCHANGED <<tText, tGate, tCtxDone, tCache, tLooked, tEvents>>
    /\ UNCHANGED <<batchVars, xVars, pVars, lVars, wVars>>

\* llmErr := LLMError{Err: lastErr}; t.emit(ctx, EventError ...); return.
\* emit sends the event, or gives up when ctx is done.
TEmit(c) ==
    /\ tPc[c] = "emit"
    /\ \/ tEvents' = Append(tEvents, c)
       \/ tCtxDone /\ UNCHANGED tEvents
    /\ TReturn(c, "", LLMErr(c))
    /\ UNCHANGED <<tText, tGate, tCtxDone, tAttempt, tCache, tLooked>>
    /\ UNCHANGED <<batchVars, xVars, pVars, lVars, wVars>>

NextT ==
    \/ TCancel
    \/ \E c \in Callers : TEnter(c)
    \/ \E c \in Callers : TPreCall(c)
    \/ \E c \in Callers : TBackendReply(c)
    \/ \E c \in Callers : TRetryWait(c)
    \/ \E c \in Callers : TEmit(c)

SpecT == InitT /\ [][NextT]_vars

\* ============================================= LLMService.Translate (SpecL)
\* llmservice.go holds two revisions of the service: the first retries a
\* failed request, the second falls back to a streaming request.
RetryRevision == 1
StreamRevision == 2

\* for i := 0; i <= maxRetries; i++ with maxRetries := 2
MaxRetries == 2

\* The texts handed to Translate: whitespace and a text to translate.
ServiceTexts == {" ", "jp1"}

\* What Chat.Completions.New can hand back: err (none, an error, or the
\* error "only support stream mode"), len(Choices), Choices[0].Message.Content.
ServiceReplies ==
    {[err |-> "none", choices |-> 1, content |-> "v1"],
     [err |-> "none", choices |-> 1, content |-> ""],
     [err |-> "none", choices |-> 0, content |-> ""],
     [err |-> "other", choices |-> 0, content |-> ""],
     [err |-> "streamonly", choices |-> 0, content |-> ""]}

\* What the streaming request accumulates: stream.Err(), len(acc.Choices),
\* acc.Choices[0].Message.Content.
StreamReplies ==
    {[err |-> FALSE, choices |-> 1, content |-> "v1"],
     [err |-> FALSE, choices |-> 1, content |-> ""],
     [err |-> FALSE, choices |-> 0, content |-> ""],
     [err |-> TRUE, choices |-> 0, content |-> ""]}

EngineErr == [kind |-> "engine", from |-> 0]
PanicRes == [kind |-> "panic", from |-> 0]

InitL ==
    /\ BatchIdle
    /\ ExtractIdle
    /\ PipeIdle
    /\ TextIdle
    /\ RunsIdle
    /\ lRev \in {RetryRevision, StreamRevision}
    /\ lPc = [c \in Callers |-> "start"]
    /\ lText \in [Callers -> ServiceTexts]
    /\ lTry = [c \in Callers |-> 0]
    /\ lRet = [c \in Callers |-> NoRes]
    /\ lVal = [c \in Callers |-> ""]
    /\ lCache = [t \in ServiceTexts |-> NoEntry]
    /\ lCtxDone = FALSE
    /\ lForceStream = FALSE
    /\ lCalls = [c \in Callers |-> 0]
    /\ lLast = [c \in Callers |-> "-"]

\* Translate returns (v, e) to caller c.
LReturn(c, v, e) ==
    /\ lPc' = [lPc EXCEPT ![c] = "done"]
    /\ lVal' = [lVal EXCEPT ![c] = v]
    /\ lRet' = [lRet EXCEPT ![c] = e]

\* doTranslateRequest returned (v, nil): s.cache[text] = v; return v, nil.
LSucceed(c, v) ==
    /\ lCache' = [lCache EXCEPT ![lText[c]] = v]
    /\ LReturn(c, v, OkRes)
    /\ UNCHANGED lTry

\* doTranslateRequest returned an error: the first revision sleeps and
\* tries again while i < maxRetries, otherwise the error is returned.
LFail(c) ==
    /\ IF lRev = RetryRevision /\ lTry[c] < MaxRetries
       THEN /\ lPc' = [lPc EXCEPT ![c] = "sleep"]
            /\ UNCHANGED <<lVal, lRet>>
       ELSE LReturn(c, "", EngineErr)
    /\ UNCHANGED <<lCache, lTry>>

\* The caller cancels ctx.
LCancel ==
    /\ ~lCtxDone
    /\ lCtxDone' = TRUE
    /\ UNCHANGED <<lRev, lPc, lText, lTry, lRet, lVal, lCache, lForceStream,
                   lCalls, lLast>>
    /\ UNCHANGED <<batchVars, xVars, pVars, tVars, wVars>>

\* Translate: the cache lookup under the read lock.
LLookup(c) ==
    /\ lPc[c] = "start"
    /\ IF lCache[lText[c]] # NoEntry
       THEN LReturn(c, lCache[lText[c]], OkRes)
       ELSE /\ lPc' = [lPc EXCEPT ![c] = "request"]
            /\ UNCHANGED <<lVal, lRet>>
    /\ UNCHANGED <<lRev, lText, lTry, lCache, lCtxDone, lForceStream, lCalls,
                   lLast>>
    /\ UNCHANGED <<batchVars, xVars, pVars, tVars, wVars>>

\* forceStream := s.forceStreamModels[s.config.Model], a map only the second
\* revision has; and a service that never reads it.
forceStreamIgnored(rev, flag) == FALSE
forceStream(rev, flag) == rev = StreamRevision /\ flag

\* doTranslateRequest: the request goes out, streaming when the second
\* revision has forceStream set for the model.
LRequest(c) ==
    /\ lPc[c] = "request"
    /\ lCalls' = [lCalls EXCEPT ![c] = @ + 1]
    /\ lPc' = [lPc EXCEPT ![c] =
                  IF forceStream(lRev, lForceStream) THEN "streaming"
                  ELSE "standard"]
    /\ UNCHANGED <<lRev, lText, lTry, lRet, lVal, lCache, lCtxDone,
                   lForceStream, lLast>>
    /\ UNCHANGED <<batchVars, xVars, pVars, tVars, wVars>>

\* The answer to Chat.Completions.New.
LStandardReply(c) ==
    /\ lPc[c] = "standard"
    /\ \E r \in ServiceReplies :
          /\ lLast' = [lLast EXCEPT ![c] = r.err]
          /\ IF r.err = "none"
             THEN /\ IF r.choices = 0 THEN LFail(c)
                     ELSE LSucceed(c, r.content)
                  /\ UNCHANGED <<lForceStream, lCalls>>
             ELSE IF r.err = "streamonly" /\ lRev = StreamRevision
             THEN /\ lForceStream' = TRUE
                  /\ lCalls' = [lCalls EXCEPT ![c] = @ + 1]
                  /\ lPc' = [lPc EXCEPT ![c] = "streaming"]
                  /\ UNCHANGED <<lTry, lRet, lVal, lCache>>
             ELSE /\ LFail(c)
                  /\ UNCHANGED <<lForceStream, lCalls>>
    /\ UNCHANGED <<lRev, lText, lCtxDone>>
    /\ UNCHANGED <<batchVars, xVars, pVars, tVars, wVars>>

\* doStreamTranslateRequest once the stream has ended.
LStreamReply(c) ==
    /\ lPc[c] = "streaming"
    /\ \E r \in StreamReplies :
          IF r.err THEN LFail(c)
          ELSE IF r.choices = 0
          THEN \* acc.Choices[0]: index out of range
               LReturn(c, "", PanicRes) /\ UNCHANGED <<lCache, lTry>>
          ELSE IF r.content = "" THEN LFail(c)
          ELSE LSucceed(c, r.content)
    /\ UNCHANGED <<lRev, lText, lCtxDone, lForceStream, lCalls, lLast>>
    /\ UNCHANGED <<batchVars, xVars, pVars, tVars, wVars>>

\* time.Sleep(2 * time.Second) is over: i++ and the next request.
LSleepDone(c) ==
    /\ lPc[c] = "sleep"
    /\ lTry' = [lTry EXCEPT ![c] = @ + 1]
    /\ lPc' = [lPc EXCEPT ![c] = "request"]
    /\ UNCHANGED <<lRev, lText, lRet, lVal, lCache, lCtxDone, lForceStream,
                   lCalls, lLast>>
    /\ UNCHANGED <<batchVars, xVars, pVars, tVars, wVars>>

NextL ==
    \/ LCancel
    \/ \E c \in Callers : LLookup(c)
    \/ \E c \in Callers : LRequest(c)
    \/ \E c \in Callers : LStandardReply(c)
    \/ \E c \in Callers : LStreamReply(c)
    \/ \E c \in Callers : LSleepDone(c)

SpecL == InitL /\ [][NextL]_vars

\* ===================================== TranslateShapes / TranslateDocument
\* (SpecS)  shapes is the record of one call:
\*   doc      "excel" (TranslateShapes) or "word" (TranslateDocument)
\*   pc       the position in the function
\*   ctxDone  st.ctx is cancelled
\*   temp     the directory of os.MkdirTemp: "none" | "exists" | "removed"
\*   left     the parts ProcessDrawings has still to translate
\*   results  what the batches run so far returned
\*   out      outputFile was created by ZipExcel / ZipWord
\*   ret      the error returned

\* defer os.RemoveAll(tempDir) runs at every return after MkdirTemp; and a
\* cleanup written as the last statement of the function instead.
RemoveAtEnd(temp, e) == IF e = Nil THEN "removed" ELSE temp
DeferredRemoveAll(temp, e) == "removed"

InitS ==
    /\ BatchIdle
    /\ ExtractIdle
    /\ PipeIdle
    /\ TextIdle
    /\ ServiceIdle
    /\ sheets = NoRun
    /\ run = NoRun
    /\ ftx = NoRun
    /\ FrontIdle
    /\ \E d \in {"excel", "word"}, m \in 0..MaxDrawings :
          /\ d = "word" => m = 1
          /\ shapes = [doc |-> d, pc |-> "start", ctxDone |-> FALSE,
                       temp |-> "none", left |-> m, results |-> <<>>,
                       out |-> FALSE, ret |-> NoRes]

\* A return after MkdirTemp succeeded: the deferred RemoveAll, then e.
SReturn(e) ==
    [shapes EXCEPT !.pc = "returned", !.ret = e,
                   !.temp = DeferredRemoveAll(shapes.temp, e)]

SFrame ==
    UNCHANGED <<batchVars, xVars, pVars, tVars, lVars, sheets, run, ftx, uVars>>

\* The caller cancels st.ctx.
SCancel ==
    /\ shapes.pc # "returned"
    /\ ~shapes.ctxDone
    /\ shapes' = [shapes EXCEPT !.ctxDone = TRUE]
    /\ SFrame

\* The entry check of the context and os.MkdirTemp.
SMkdirTemp ==
    /\ shapes.pc = "start"
    /\ \/ /\ shapes.ctxDone
          /\ shapes' = [shapes EXCEPT !.pc = "returned", !.ret = CtxErr]
       \/ /\ ~shapes.ctxDone
          /\ shapes' = [shapes EXCEPT !.pc = "returned", !.ret = IOErr]
       \/ /\ ~shapes.ctxDone
          /\ shapes' = [shapes EXCEPT !.pc = "unzip", !.temp = "exists"]
    /\ SFrame

\* UnzipExcel / UnzipWord into the temporary directory.
SUnzip ==
    /\ shapes.pc = "unzip"
    /\ \/ shapes' = SReturn(IOErr)
       \/ shapes' = [shapes EXCEPT !.pc = "check"]
    /\ SFrame

\* The check of the context after unzipping.
SCheckUnzipped ==
    /\ shapes.pc = "check"
    /\ shapes' = IF shapes.ctxDone THEN SReturn(CtxErr)
                 ELSE [shapes EXCEPT !.pc = "parts"]
    /\ SFrame

\* ProcessDrawings: per drawing*.xml the check of the context and
\* TranslateDrawingFile, whose error ends the loop; TranslateDocument makes
\* the one call of TranslateDocumentXmlFile.  A batch returns nil, the error
\* of a task, an I/O error, or the context's error when the context is or
\* becomes cancelled.
SPart ==
    /\ shapes.pc = "parts"
    /\ IF shapes.left = 0
       THEN shapes' = [shapes EXCEPT !.pc = "checkzip"]
       ELSE \/ /\ shapes.ctxDone
               /\ shapes' = SReturn(CtxErr)
            \/ /\ ~shapes.ctxDone
               /\ \E e \in {Nil, LLMErr(shapes.left), IOErr} :
                     shapes' =
                        IF e = Nil
                        THEN [shapes EXCEPT !.left = @ - 1,
                                            !.results = Append(@, e)]
                        ELSE [SReturn(e) EXCEPT !.results = Append(@, e)]
            \/ /\ ~shapes.ctxDone
               /\ shapes' = [SReturn(CtxErr) EXCEPT !.ctxDone = TRUE,
                                !.results = Append(@, CtxErr)]
    /\ SFrame

\* The check of the context before the archive is written again.
SCheckTranslated ==
    /\ shapes.pc = "checkzip"
    /\ shapes' = IF shapes.ctxDone THEN SReturn(CtxErr)
                 ELSE [shapes EXCEPT !.pc = "zip"]
    /\ SFrame

\* ZipExcel / ZipWord: os.Create(outputFile), then the walk.
SZip ==
    /\ shapes.pc = "zip"
    /\ \/ shapes' = [SReturn(Nil) EXCEPT !.out = TRUE]
       \/ \E o \in BOOLEAN : shapes' = [SReturn(IOErr) EXCEPT !.out = o]
    /\ SFrame

NextS ==
    \/ SCancel
    \/ SMkdirTemp
    \/ SUnzip
    \/ SCheckUnzipped
    \/ SPart
    \/ SCheckTranslated
    \/ SZip

SpecS == InitS /\ [][NextS]_vars

\* ====================================================== TranslateSheetNames
\* (SpecN)  sheets is the record of one call:
\*   list     f.GetSheetList(), the workbook's sheet names in order
\*   i        the sheets of the loop already handled
\*   ctxDone  st.ctx is cancelled
\*   set      the names handed to f.SetSheetName, in order
\*   ret      the error returned, NoRes while the loop runs
\* A name is its sequence of code points.

RECURSIVE Rep(_, _)
Rep(c, k) == IF k = 0 THEN <<>> ELSE <<c>> \o Rep(c, k - 1)

\* The sheet names of the input workbook.
SheetPool == {<<"A">>, <<"B">>, <<"X">>}

\* What translateFunc answers for a sheet name: a short name, one holding
\* characters Excel forbids, one in quotes and blanks, one of 31 and one of
\* 40 code points, and one that is forbidden characters only.
NamePool == {<<"X">>, <<"[", "X", "]", ":">>, <<"'", " ", "B", " ", "'">>,
             Rep("x", MaxSheetNameRunes), Rep("x", MaxSheetNameRunes + 9),
             <<"*", "?">>}

\* invalidChars := regexp.MustCompile(`[\[\]:*?/\\]`)
InvalidSheetChars == {"[", "]", ":", "*", "?", "/", "\\"}

\* strings.Trim(s, "'")
RECURSIVE TrimQuotes(_)
TrimQuotes(s) ==
    IF s # <<>> /\ Head(s) = "'" THEN TrimQuotes(Tail(s))
    ELSE IF s # <<>> /\ s[Len(s)] = "'"
    THEN TrimQuotes(SubSeq(s, 1, Len(s) - 1))
    ELSE s

DefaultSheetName == <<"S", "h", "e", "e", "t">>

\* SheetTranslator.truncateSheetName: clean, cut to 31 code points, trim.
cleanSheetName(name) ==
    LET noInvalid == SelectSeq(name, LAMBDA c : c \notin InvalidSheetChars)
        trimmed == TrimSpace(TrimQuotes(noInvalid))
    IN IF trimmed = <<>> THEN DefaultSheetName ELSE trimmed
stTruncateSheetName(name) ==
    LET cleaned == cleanSheetName(name)
        cut == IF Len(cleaned) > MaxSheetNameRunes
               THEN SubSeq(cleaned, 1, MaxSheetNameRunes) ELSE cleaned
        again == TrimSpace(cut)
    IN IF again = <<>> THEN DefaultSheetName ELSE again

\* fmt.Sprintf("%s_%d", desiredName, counter)
Suffixed(desiredName, counter) ==
    desiredName \o <<"_", <<"1", "2", "3", "4", "5", "6", "7", "8", "9">>[counter]>>

\* The loop over counter of ensureUniqueSheetName.
RECURSIVE FirstFreeSuffix(_, _, _, _)
FirstFreeSuffix(existingSheets, desiredName, originalName, counter) ==
    LET candidateName == Suffixed(desiredName, counter)
    IN IF \E k \in 1..Len(existingSheets) :
             existingSheets[k] = candidateName /\ existingSheets[k] # originalName
       THEN FirstFreeSuffix(existingSheets, desiredName, originalName,
                            counter + 1)
       ELSE candidateName

\* ensureUniqueSheetName against f.GetSheetList().
ensureUniqueSheetName(existingSheets, desiredName, originalName) ==
    IF \E k \in 1..Len(existingSheets) :
          existingSheets[k] = desiredName /\ existingSheets[k] # originalName
    THEN FirstFreeSuffix(existingSheets, desiredName, originalName, 1)
    ELSE desiredName

\* excelize's SetSheetName refuses a name of more than 31 code points.
SetSheetNameRefuses(name) == Len(name) > MaxSheetNameRunes

InitN ==
    /\ BatchIdle
    /\ ExtractIdle
    /\ PipeIdle
    /\ TextIdle
    /\ ServiceIdle
    /\ shapes = NoRun
    /\ run = NoRun
    /\ ftx = NoRun
    /\ FrontIdle
    /\ \E m \in 1..MaxSheets :
          \E l \in [1..m -> SheetPool] :
             /\ \A a, b \in 1..m : a # b => l[a] # l[b]
             /\ sheets = [list |-> l, i |-> 0, ctxDone |-> FALSE,
                          set |-> <<>>, ret |-> NoRes]

NFrame ==
    UNCHANGED <<batchVars, xVars, pVars, tVars, lVars, shapes, run, ftx, uVars>>

\* The caller cancels st.ctx.
NCancel ==
    /\ sheets.ret = NoRes
    /\ ~sheets.ctxDone
    /\ sheets' = [sheets EXCEPT !.ctxDone = TRUE]
    /\ NFrame

\* One round of the loop over sheetNames: the check of the context,
\* translateFunc, and for a new non-empty name the rename.
NRename ==
    /\ sheets.ret = NoRes
    /\ sheets.i < Len(sheets.list)
    /\ LET k == sheets.i + 1
           sheetName == sheets.list[k]
       IN \/ /\ sheets.ctxDone
             /\ sheets' = [sheets EXCEPT !.ret = CtxErr]
          \/ \* tranErr != nil, translatedName == "" or == sheetName
             /\ ~sheets.ctxDone
             /\ sheets' = [sheets EXCEPT !.i = k]
          \/ /\ ~sheets.ctxDone
             /\ \E translatedName \in NamePool \ {sheetName} :
                   LET newName == stTruncateSheetName(translatedName)
                       uniqueName ==
                          ensureUniqueSheetName(sheets.list, newName, sheetName)
                   IN sheets' =
                         IF SetSheetNameRefuses(uniqueName)
                         THEN [sheets EXCEPT !.set = Append(@, uniqueName),
                                             !.ret = IOErr]
                         ELSE [sheets EXCEPT !.set = Append(@, uniqueName),
                                             !.list[k] = uniqueName,
                                             !.i = k]
    /\ NFrame

\* return f.SaveAs(outputFile)
NSave ==
    /\ sheets.ret = NoRes
    /\ sheets.i = Len(sheets.list)
    /\ \E e \in {Nil, IOErr} : sheets' = [sheets EXCEPT !.ret = e]
    /\ NFrame

NextN == NCancel \/ NRename \/ NSave

SpecN == InitN /\ [][NextN]_vars

\* ========================================================= core.ProcessFile
\* (SpecR)  run is the record of one ProcessFile call:
\*   kind     the input's suffix: "xlsx", "docx" or "other"
\*   cfgFile  config.toml exists
\*   cfgValue max_concurrent_requests as written in it, 0 when it is not
\*   pc       "load" | "failed" | "init" | "check" | "phase" | "finish" |
\*            "closed" | "panic" | "handler" | "crashed"
\*   ctxDone  ctx is cancelled
\*   K        cfg.Client.MaxConcurrentRequests
\*   started  the phases started, in order
\*   returned what the phases returned, in order
\*   events   the events delivered on the channel, in order
\*   err      the error of TranslateExcelFile / TranslateDocxFile
\*   closes   the close(events) calls made
\*   lateSends the sends on events made after a close

\* config.go:36
DefaultMaxConcurrentRequests == 5

\* The values a config.toml sets max_concurrent_requests to (0: not at all).
MaxConfigured == 2

\* The phases of TranslateExcelFile and of TranslateDocxFile, in the order
\* of the code.
PhasesOf(kind) ==
    CASE kind = "xlsx" -> <<"sheet", "cell", "shape">>
      [] kind = "docx" -> <<"docx">>
      [] OTHER -> <<>>

FormatErr == [kind |-> "format", from |-> 0]

Event(kind, stage, e) == [kind |-> kind, stage |-> stage, err |-> e]

\* The check of ctx.Done() before a phase; and a pipeline without it.
CtxUnchecked(done) == FALSE
CtxChecked(done) == done

\* emit, once per event of evs: with ctx cancelled the select may take
\* either branch, so the event is delivered or dropped.
RECURSIVE Emits(_, _)
Emits(evs, done) ==
    IF evs = <<>> THEN {<<>>}
    ELSE LET rest == Emits(Tail(evs), done)
         IN {<<Head(evs)>> \o r : r \in rest}
               \cup (IF done THEN rest ELSE {})

\* The events a phase that returns e has emitted, directly or through
\* TranslateText: the error event unless e is an LLMError, for which
\* TranslateText had emitted its own; for a nil return of the cell or
\* document phase the events of no item or of one item.
PhaseEvents(stage, e) ==
    IF e = Nil
    THEN {<<>>} \cup
         (IF stage \in {"cell", "docx"}
          THEN {<<Event("translated", stage, Nil), Event("progress", stage, Nil)>>}
          ELSE {})
    ELSE IF e.kind = "llm" THEN {<<Event("error", "llm", e)>>}
    ELSE {<<Event("error", stage, e)>>}

InitR ==
    /\ BatchIdle
    /\ ExtractIdle
    /\ PipeIdle
    /\ TextIdle
    /\ ServiceIdle
    /\ shapes = NoRun
    /\ sheets = NoRun
    /\ ftx = NoRun
    /\ FrontIdle
    /\ \E k \in {"xlsx", "docx", "other"}, f \in BOOLEAN, v \in 0..MaxConfigured :
          /\ ~f => v = 0
          /\ run = [kind |-> k, cfgFile |-> f, cfgValue |-> v, pc |-> "load",
                    ctxDone |-> FALSE, K |-> 0, started |-> <<>>,
                    returned |-> <<>>, events |-> <<>>, err |-> NoRes,
                    closes |-> 0, lateSends |-> 0]

RFrame ==
    UNCHANGED <<batchVars, xVars, pVars, tVars, lVars, shapes, sheets, ftx, uVars>>

\* The caller cancels ctx.
RCancel ==
    /\ run.pc \notin {"failed", "closed", "crashed"}
    /\ ~run.ctxDone
    /\ run' = [run EXCEPT !.ctxDone = TRUE]
    /\ RFrame

\* config.LoadConfig: an error; the defaults when there is no config.toml;
\* else the file's values.
RLoadConfig ==
    /\ run.pc = "load"
    /\ \/ run' = [run EXCEPT !.pc = "failed"]
       \/ run' = [run EXCEPT !.pc = "init",
                             !.K = IF run.cfgFile THEN run.cfgValue
                                   ELSE DefaultMaxConcurrentRequests]
    /\ RFrame

\* The goroutine of ProcessFile up to the dispatch on the suffix.
RStart ==
    /\ run.pc = "init"
    /\ \E evs \in Emits(<<Event("start", "", Nil)>>, run.ctxDone) :
          run' = IF PhasesOf(run.kind) = <<>>
                 THEN [run EXCEPT !.events = @ \o evs, !.err = FormatErr,
                                  !.pc = "finish"]
                 ELSE [run EXCEPT !.events = @ \o evs, !.pc = "check"]
    /\ RFrame

\* select { case <-ctx.Done(): return ctx.Err(); default: } and the call of
\* the next phase.
RPhaseStart ==
    /\ run.pc = "check"
    /\ run' = IF CtxChecked(run.ctxDone)
              THEN [run EXCEPT !.err = CtxErr, !.pc = "finish"]
              ELSE [run EXCEPT !.pc = "phase",
                       !.started =
                          Append(@, PhasesOf(run.kind)[Len(run.started) + 1])]
    /\ RFrame

\* The phase returns.  A phase with work needs a semaphore slot; the sheet
\* phase swallows the errors of translateFunc.
RPhaseReturn ==
    /\ run.pc = "phase"
    /\ LET stage == run.started[Len(run.started)]
           last == Len(run.started) = Len(PhasesOf(run.kind))
       IN \E e \in {Nil, IOErr, CtxErr, LLMErr(0)} :
             /\ e = CtxErr => run.ctxDone
             /\ e.kind = "llm" => (stage # "sheet" /\ run.K >= 1)
             /\ \E evs \in PhaseEvents(stage, e) :
                   /\ evs # <<>> /\ e = Nil => run.K >= 1
                   /\ \E got \in Emits(evs, run.ctxDone) :
                         run' =
                            [run EXCEPT
                               !.returned = Append(@, e),
                               !.events = @ \o got,
                               !.err = IF e # Nil \/ last THEN e ELSE @,
                               !.pc = IF e # Nil \/ last THEN "finish"
                                      ELSE "check"]
    /\ RFrame

\* emit(ctx, EventComplete with err), then the deferred close(events).
RComplete ==
    /\ run.pc = "finish"
    /\ \E evs \in Emits(<<Event("complete", "", run.err)>>, run.ctxDone) :
          run' = [run EXCEPT !.events = @ \o evs, !.pc = "closed",
                             !.closes = @ + 1]
    /\ RFrame

\* The worker goroutine panics inside a phase.
RPanic ==
    /\ run.pc = "phase"
    /\ run' = [run EXCEPT !.pc = "panic"]
    /\ RFrame

\* The deferred functions run last registered first: defer close(events)
\* was registered after the recovery handler.
RDeferredClose ==
    /\ run.pc = "panic"
    /\ run' = [run EXCEPT !.pc = "handler", !.closes = @ + 1]
    /\ RFrame

\* The recovery handler: recover() returns the panic value and the handler
\* sends the error event on events, which is closed; the send panics and
\* the goroutine dies with it.
RRecoverHandler ==
    /\ run.pc = "handler"
    /\ run' = [run EXCEPT !.pc = "crashed", !.lateSends = @ + 1]
    /\ RFrame

NextR ==
    \/ RCancel
    \/ RLoadConfig
    \/ RStart
    \/ RPhaseStart
    \/ RPhaseReturn
    \/ RComplete
    \/ RPanic
    \/ RDeferredClose
    \/ RRecoverHandler

SpecR == InitR /\ [][NextR]_vars

\* ======================================= LocalTranslator.TranslateFileTexts
\* (SpecF)  ftx is the record of one TranslateFileTexts call:
\*   texts        the input
\*   hooks        the callbacks that are not nil
\*   pc           "loop" | "engine" | "done"
\*   ctxDone      t.ctx is cancelled
\*   calls        the texts handed to engine.Translate, in order
\*   replies      what engine.Translate returned without error, in order
\*   translations the slice being built
\*   cbs          the callbacks made, in order
\*   ret          NoRes, or the returned (list, error)

MaxItems == 3

ItemPool == {"a", "b"}

\* What the engine may answer for a text: the text itself or a translation.
EngineReplies(text) == {text, IF text = "a" THEN "A" ELSE "B"}

Hooks == {"OnTranslated", "OnProgress", "OnError"}

\* A callback is made only when it is not nil.
Call(hooks, name, args) == IF name \in hooks THEN <<<<name>> \o args>> ELSE <<>>

\* What the loop body does with the outcome of t.Translate(text): return at
\* the first error; else append and report progress.  And a loop that ignores
\* an error and goes on with an empty translation.
KeepGoing(f, translated, e) ==
    [f EXCEPT !.pc = "loop",
              !.translations = Append(@, translated),
              !.cbs = @ \o Call(f.hooks, "OnProgress",
                                <<Len(f.translations) + 1, Len(f.texts)>>)]
AfterItem(f, translated, e) ==
    IF e # Nil
    THEN [f EXCEPT !.pc = "done", !.ret = [res |-> <<>>, err |-> e]]
    ELSE [f EXCEPT !.pc = "loop",
                   !.translations = Append(@, translated),
                   !.cbs = @ \o Call(f.hooks, "OnProgress",
                                     <<Len(f.translations) + 1, Len(f.texts)>>)]

InitF ==
    /\ BatchIdle
    /\ ExtractIdle
    /\ PipeIdle
    /\ TextIdle
    /\ ServiceIdle
    /\ shapes = NoRun
    /\ sheets = NoRun
    /\ run = NoRun
    /\ FrontIdle
    /\ \E total \in 0..MaxItems, h \in SUBSET Hooks :
          \E t \in [1..total -> ItemPool] :
             ftx = [texts |-> t, hooks |-> h, pc |-> "loop", ctxDone |-> FALSE,
                    calls |-> <<>>, replies |-> <<>>, translations |-> <<>>,
                    cbs |-> <<>>, ret |-> NoRes]

FFrame ==
    UNCHANGED <<batchVars, xVars, pVars, tVars, lVars, shapes, sheets, run, uVars>>

\* The owner of t.ctx cancels it.
FCancel ==
    /\ ftx.pc \in {"loop", "engine"}
    /\ ~ftx.ctxDone
    /\ ftx' = [ftx EXCEPT !.ctxDone = TRUE]
    /\ FFrame

\* The head of the loop and Translate's check of t.ctx: the return after the
\* last item, the return of ctx.Err(), or the call of the engine.
FLoop ==
    /\ ftx.pc = "loop"
    /\ ftx' =
          IF Len(ftx.translations) = Len(ftx.texts)
          THEN [ftx EXCEPT !.pc = "done",
                           !.ret = [res |-> ftx.translations, err |-> Nil]]
          ELSE IF ftx.ctxDone
          THEN AfterItem(ftx, "", CtxErr)
          ELSE [ftx EXCEPT !.pc = "engine",
                   !.calls = Append(@, ftx.texts[Len(ftx.translations) + 1])]
    /\ FFrame

\* engine.Translate returns; Translate makes its callbacks and the loop body
\* goes on.
FEngine ==
    /\ ftx.pc = "engine"
    /\ LET text == ftx.calls[Len(ftx.calls)]
       IN \/ \E e \in {IOErr, LLMErr(0), CtxErr} :
                /\ e = CtxErr => ftx.ctxDone
                /\ ftx' = AfterItem(
                      [ftx EXCEPT !.cbs = @ \o Call(ftx.hooks, "OnError", <<text>>)],
                      "", e)
          \/ \E out \in EngineReplies(text) :
                ftx' = AfterItem(
                   [ftx EXCEPT !.replies = Append(@, out),
                               !.cbs = @ \o IF out # text
                                            THEN Call(ftx.hooks, "OnTranslated",
                                                      <<text, out>>)
                                            ELSE <<>>],
                   out, Nil)
    /\ FFrame

NextF ==
    \/ FCancel
    \/ FLoop
    \/ FEngine

SpecF == InitF /\ [][NextF]_vars

\* ================================================ CellTranslator.TranslateCells
\* (SpecC)  cells is the record of one TranslateCells call, the variant
\* whose tasks acquire the semaphore in a helper goroutine:
\*   size     len(tasks)
\*   K        ct.maxConcurrentRequests
\*   ctxDone  ctx is cancelled
\*   childDone childCancel() has been called
\*   pc       pc[i]: "pre" | "select" | "post" | "call" | "done"
\*   helper   helper[i]: "none" | "acquire" | "done"
\*   acquireDone  acquireDone[i]: the buffered channel's content
\*   cur      semaphore.Weighted.cur
\*   ret      NoRes, or what TranslateCells returned

\* childCtx.Done() of the call.
CellsChildDone(c) == c.ctxDone \/ c.childDone

\* A task returns: wg.Done(), after the deferred sem.Release(1) when the
\* task has registered it.  And a return that keeps the slot.
CellsTaskReturnHolding(c, i, registered) == [c EXCEPT !.pc[i] = "done"]
CellsTaskReturn(c, i, registered) ==
    [c EXCEPT !.pc[i] = "done",
              !.cur = IF registered THEN @ - 1 ELSE @]

InitC ==
    /\ BatchIdle
    /\ ExtractIdle
    /\ PipeIdle
    /\ TextIdle
    /\ ServiceIdle
    /\ shapes = NoRun /\ sheets = NoRun /\ run = NoRun /\ ftx = NoRun
    /\ rt = NoRun /\ capi = NoRun /\ win = NoRun
    /\ \E size \in 1..MaxCells, k \in 1..MaxK :
          cells = [size |-> size, K |-> k, ctxDone |-> FALSE,
                   childDone |-> FALSE,
                   pc |-> [i \in 1..size |-> "pre"],
                   helper |-> [i \in 1..size |-> "none"],
                   acquireDone |-> [i \in 1..size |-> <<>>],
                   cur |-> 0, ret |-> NoRes]

CFrame ==
    UNCHANGED <<batchVars, xVars, pVars, tVars, lVars, shapes, sheets, run,
                ftx, rt, capi, win>>

\* The caller cancels ctx.
CCancel ==
    /\ ~cells.ctxDone
    /\ cells' = [cells EXCEPT !.ctxDone = TRUE]
    /\ CFrame

\* The first check of childCtx, then the start of the helper goroutine.
CPreCheck(i) ==
    /\ cells.pc[i] = "pre"
    /\ cells' = IF CellsChildDone(cells)
                THEN CellsTaskReturn(cells, i, FALSE)
                ELSE [cells EXCEPT !.pc[i] = "select", !.helper[i] = "acquire"]
    /\ CFrame

\* The helper: acquireDone <- sem.Acquire(childCtx, 1).  The send never
\* blocks, the channel has room for one value.
CHelperAcquire(i) ==
    /\ cells.helper[i] = "acquire"
    /\ \/ /\ CellsChildDone(cells)
          /\ cells' = [cells EXCEPT !.helper[i] = "done",
                                    !.acquireDone[i] = <<CtxErr>>]
       \/ /\ ~CellsChildDone(cells)
          /\ cells.cur < cells.K
          /\ cells' = [cells EXCEPT !.helper[i] = "done",
                                    !.acquireDone[i] = <<Nil>>,
                                    !.cur = @ + 1]
    /\ CFrame

\* The task's select on childCtx.Done() and acquireDone: either ready case
\* may be taken.  Only the nil branch reaches defer sem.Release(1).
CSelect(i) ==
    /\ cells.pc[i] = "select"
    /\ \/ /\ CellsChildDone(cells)
          /\ cells' = CellsTaskReturn(cells, i, FALSE)
       \/ /\ cells.acquireDone[i] # <<>>
          /\ cells' =
                IF cells.acquireDone[i][1] = Nil
                THEN [cells EXCEPT !.pc[i] = "post", !.acquireDone[i] = <<>>]
                ELSE CellsTaskReturn(
                        [cells EXCEPT !.acquireDone[i] = <<>>], i, FALSE)
    /\ CFrame

\* The check of childCtx after the acquisition.
CPostCheck(i) ==
    /\ cells.pc[i] = "post"
    /\ cells' = IF CellsChildDone(cells)
                THEN CellsTaskReturn(cells, i, TRUE)
                ELSE [cells EXCEPT !.pc[i] = "call"]
    /\ CFrame

\* translateFunc returns, with or without an error; the task ends.
CTranslate(i) ==
    /\ cells.pc[i] = "call"
    /\ cells' = CellsTaskReturn(cells, i, TRUE)
    /\ CFrame

\* The select of TranslateCells on childCtx.Done() and waitDone, and what
\* follows the latter: the write loop with its ctx checks, the save.  The
\* deferred childCancel() runs at every return.
CReturn ==
    /\ cells.ret = NoRes
    /\ \/ /\ CellsChildDone(cells)
          /\ cells' = [cells EXCEPT !.ret = CtxErr, !.childDone = TRUE]
       \/ /\ \A i \in 1..cells.size : cells.pc[i] = "done"
          /\ \E e \in {Nil, IOErr} \cup (IF cells.ctxDone THEN {CtxErr} ELSE {}) :
                cells' = [cells EXCEPT !.ret = e, !.childDone = TRUE]
    /\ CFrame

NextC ==
    \/ CCancel
    \/ \E i \in 1..cells.size : CPreCheck(i)
    \/ \E i \in 1..cells.size : CHelperAcquire(i)
    \/ \E i \in 1..cells.size : CSelect(i)
    \/ \E i \in 1..cells.size : CPostCheck(i)
    \/ \E i \in 1..cells.size : CTranslate(i)
    \/ CReturn

SpecC == InitC /\ [][NextC]_vars

\* ------------------------------------------------- the batches, scheduled
\* (SpecLive)  A TranslateDrawingFile batch or a TranslateCells call, with
\* every goroutine that can take a step eventually taking one and every
\* engine call eventually returning.  The caller's cancellation is under no
\* obligation to happen.
InitLive == Init \/ InitC

DrawingStep == cells = NoRun /\ Next
CellsStep == cells # NoRun /\ NextC

DrawingProgress == DrawingStep /\ ctxDone' = ctxDone
CellsProgress == CellsStep /\ cells'.ctxDone = cells.ctxDone

NextLive ==
    \/ DrawingStep
    \/ CellsStep

SpecLive ==
    /\ InitLive
    /\ [][NextLive]_vars
    /\ WF_vars(DrawingProgress)
    /\ WF_vars(CellsProgress)

\* ===================================================== runner.RunTranslation
\* (SpecRT)  rt is the record of one RunTranslation call:
\*   items    the texts the file's parts hold
\*   pc       "load" | "process" | "report" | "returned"
\*   ctxDone  ctx is cancelled
\*   done     the texts translated so far
\*   cbs      the callbacks made, in order
\*   perr     processingErr
\*   ret      NoRes, or the error RunTranslation returned

Callback(name, arg) == [name |-> name, arg |-> arg]

InitRT ==
    /\ BatchIdle
    /\ ExtractIdle
    /\ PipeIdle
    /\ TextIdle
    /\ ServiceIdle
    /\ shapes = NoRun /\ sheets = NoRun /\ run = NoRun /\ ftx = NoRun
    /\ cells = NoRun /\ capi = NoRun /\ win = NoRun
    /\ \E k \in 0..MaxItems :
          rt = [items |-> k, pc |-> "load", ctxDone |-> FALSE, done |-> 0,
                cbs |-> <<>>, perr |-> NoRes, ret |-> NoRes]

RTFrame ==
    UNCHANGED <<batchVars, xVars, pVars, tVars, lVars, shapes, sheets, run,
                ftx, cells, capi, win>>

\* The caller cancels ctx.
RTCancel ==
    /\ rt.pc # "returned"
    /\ ~rt.ctxDone
    /\ rt' = [rt EXCEPT !.ctxDone = TRUE]
    /\ RTFrame

\* config.Load(): its error is returned at once.
RTLoadConfig ==
    /\ rt.pc = "load"
    /\ \/ rt' = [rt EXCEPT !.pc = "returned", !.ret = IOErr]
       \/ rt' = [rt EXCEPT !.pc = "process"]
    /\ RTFrame

\* fp.ProcessFile translates one more text through the LocalTranslator: the
\* cancelled context, the engine's error with OnError, or the translation
\* with OnTranslated (when it differs from the text) and OnProgress.
RTItem ==
    /\ rt.pc = "process"
    /\ rt.done < rt.items
    /\ IF rt.ctxDone
       THEN rt' = [rt EXCEPT !.pc = "report", !.perr = CtxErr]
       ELSE \/ rt' = [rt EXCEPT
                        !.pc = "report", !.perr = LLMErr(0),
                        !.cbs = Append(@, Callback("OnError",
                                                   "translation_engine"))]
            \/ \E changed \in BOOLEAN :
                  rt' = [rt EXCEPT
                           !.done = @ + 1,
                           !.cbs = @ \o (IF changed
                                         THEN <<Callback("OnTranslated", "")>>
                                         ELSE <<>>)
                                    \o <<Callback("OnProgress", rt.done + 1)>>]
    /\ RTFrame

\* fp.ProcessFile returns: an error of the archive at any point, nil after
\* the last text.
RTProcessReturn ==
    /\ rt.pc = "process"
    /\ \/ rt' = [rt EXCEPT !.pc = "report", !.perr = IOErr]
       \/ /\ rt.done = rt.items
          /\ rt' = [rt EXCEPT !.pc = "report", !.perr = Nil]
    /\ RTFrame

\* The tail of RunTranslation: OnError and OnComplete(processingErr), or
\* OnComplete(nil).
RTReport ==
    /\ rt.pc = "report"
    /\ rt' = [rt EXCEPT
                !.pc = "returned",
                !.ret = rt.perr,
                !.cbs = @ \o (IF rt.perr # Nil
                              THEN <<Callback("OnError", "fileprocessor")>>
                              ELSE <<>>)
                         \o <<Callback("OnComplete", rt.perr)>>]
    /\ RTFrame

NextRT ==
    \/ RTCancel
    \/ RTLoadConfig
    \/ RTItem
    \/ RTProcessReturn
    \/ RTReport

SpecRT == InitRT /\ [][NextRT]_vars

\* ======================================================= the C interface
\* (SpecCI)  capi is the state of the exported library:
\*   taskMap  taskMap: per task id the call whose cancel function is
\*            stored, 0 when the id has no entry
\*   id       id[c]: the taskID of Translate call c
\*   pc       pc[c]: "idle" | "registered" | "running" | "returned"
\*   ctxDone  ctxDone[c]: the context of call c is cancelled

\* The task ids the host application passes.
TaskIds == {7, 8}

\* taskMap.Store(id, cancel), taskMap.Delete(id)
Store(m, id, c) == [m EXCEPT ![id] = c]
Delete(m, id) == [m EXCEPT ![id] = 0]

InitCI ==
    /\ BatchIdle
    /\ ExtractIdle
    /\ PipeIdle
    /\ TextIdle
    /\ ServiceIdle
    /\ shapes = NoRun /\ sheets = NoRun /\ run = NoRun /\ ftx = NoRun
    /\ cells = NoRun /\ rt = NoRun /\ win = NoRun
    /\ \E ids \in [1..MaxCalls -> TaskIds] :
          capi = [taskMap |-> [t \in TaskIds |-> 0],
                  id |-> ids,
                  pc |-> [c \in 1..MaxCalls |-> "idle"],
                  ctxDone |-> [c \in 1..MaxCalls |-> FALSE]]

CIFrame ==
    UNCHANGED <<batchVars, xVars, pVars, tVars, lVars, shapes, sheets, run,
                ftx, cells, rt, win>>

\* Translate up to the deferred function's registration: a fresh context,
\* its cancel function stored under the task id.
CIRegister(c) ==
    /\ capi.pc[c] = "idle"
    /\ capi' = [capi EXCEPT !.pc[c] = "registered",
                           !.taskMap = Store(@, capi.id[c], c)]
    /\ CIFrame

\* toml.Unmarshal of the configuration, then RunTranslationWithConfig is
\* under way.
CIParseConfig(c) ==
    /\ capi.pc[c] = "registered"
    /\ capi' = [capi EXCEPT !.pc[c] = "running"]
    /\ CIFrame

\* Translate returns, from the failed parse or with RunTranslationWithConfig's
\* result; the deferred function deletes the id's entry and cancels the
\* call's context.
CIReturn(c) ==
    /\ capi.pc[c] \in {"registered", "running"}
    /\ capi' = [capi EXCEPT !.pc[c] = "returned",
                           !.taskMap = Delete(@, capi.id[c]),
                           !.ctxDone[c] = TRUE]
    /\ CIFrame

\* CancelTranslate(taskID): the stored cancel function is called, if any.
CICancelTranslate(t) ==
    /\ capi.taskMap[t] # 0
    /\ capi' = [capi EXCEPT !.ctxDone[capi.taskMap[t]] = TRUE]
    /\ CIFrame

\* CancelTranslate(taskID) for an id without an entry.
CICancelUnknown(t) ==
    /\ capi.taskMap[t] = 0
    /\ UNCHANGED capi
    /\ CIFrame

NextCI ==
    \/ \E c \in 1..MaxCalls : CIRegister(c)
    \/ \E c \in 1..MaxCalls : CIParseConfig(c)
    \/ \E c \in 1..MaxCalls : CIReturn(c)
    \/ \E t \in TaskIds : CICancelTranslate(t)
    \/ \E t \in TaskIds : CICancelUnknown(t)

SpecCI == InitCI /\ [][NextCI]_vars

\* ======================================================== the Qt front end
\* (SpecQ)  win is the MainWindow and the goroutines of its runs; a run is
\* named by its number, and so are its context and its temporary file:
\*   isTranslating   mw.isTranslating
\*   tempOutputFile  mw.tempOutputFile, 0 for ""
\*   ctx             mw.ctx / mw.cancel, 0 for nil
\*   ctxDone         the contexts that are cancelled
\*   latest          the number of runs started
\*   pc              pc[r]: "none" | "spawned" | "running" | "complete" |
\*                   "cleanup" | "ended"
\*   used            used[r]: the context the goroutine of run r handed to
\*                   RunTranslation
\*   err             err[r]: what OnComplete of run r was called with
\*   files           the temporary files that exist
\*   stopped         the runs stopTranslation was called on
\*   stale           what the goroutine of run r did to a later run:
\*                   <<"isTranslating", r>> reset, <<"file", r>> removed

InitQ ==
    /\ BatchIdle
    /\ ExtractIdle
    /\ PipeIdle
    /\ TextIdle
    /\ ServiceIdle
    /\ shapes = NoRun /\ sheets = NoRun /\ run = NoRun /\ ftx = NoRun
    /\ cells = NoRun /\ rt = NoRun /\ capi = NoRun
    /\ win = [isTranslating |-> FALSE, tempOutputFile |-> 0, ctx |-> 0,
              ctxDone |-> {}, latest |-> 0,
              pc |-> [r \in 1..MaxRuns |-> "none"],
              used |-> [r \in 1..MaxRuns |-> 0],
              err |-> [r \in 1..MaxRuns |-> NoRes],
              files |-> {}, stopped |-> {}, stale |-> {}]

QFrame ==
    UNCHANGED <<batchVars, xVars, pVars, tVars, lVars, shapes, sheets, run,
                ftx, cells, rt, capi>>

\* finishTranslation, as far as the run state goes.
finishTranslation(w) == [w EXCEPT !.isTranslating = FALSE]

\* startTranslation with an input file chosen: refused while a run is on;
\* else the temporary file's name, the flag, a fresh context and the
\* goroutine.
startTranslation ==
    /\ ~win.isTranslating
    /\ win.latest < MaxRuns
    /\ LET r == win.latest + 1
       IN win' = [win EXCEPT !.latest = r, !.tempOutputFile = r,
                             !.isTranslating = TRUE, !.ctx = r,
                             !.pc[r] = "spawned"]
    /\ QFrame

\* stopTranslation: the flag is reset at once, then mw.cancel().
stopTranslation ==
    /\ win.isTranslating
    /\ win' = [finishTranslation(win) EXCEPT
                 !.ctxDone = IF win.ctx # 0 THEN @ \cup {win.ctx} ELSE @,
                 !.stopped = @ \cup {win.latest}]
    /\ QFrame

\* The goroutine calls runner.RunTranslation(mw.ctx, inputFile, tempFile,
\* ...): mw.ctx is read now, tempFile is the goroutine's own.
QRunTranslation(r) ==
    /\ win.pc[r] = "spawned"
    /\ win' = [win EXCEPT !.pc[r] = "running", !.used[r] = win.ctx]
    /\ QFrame

\* RunTranslation returns: without any callback when the configuration
\* cannot be loaded; else after OnComplete was called with nil, the output
\* written, or with an error, the context's when that is cancelled.
QRunReturns(r) ==
    /\ win.pc[r] = "running"
    /\ \/ win' = [win EXCEPT !.pc[r] = "cleanup"]
       \/ \E e \in {Nil, IOErr} \cup
                   (IF win.used[r] \in win.ctxDone THEN {CtxErr} ELSE {}),
             written \in BOOLEAN :
             /\ e = Nil => written
             /\ win' = [win EXCEPT
                          !.pc[r] = "complete", !.err[r] = e,
                          !.files = IF written THEN @ \cup {r} ELSE @]
    /\ QFrame

\* handleComplete on the main thread: if mw.isTranslating, finishTranslation.
QHandleComplete(r) ==
    /\ win.pc[r] = "complete"
    /\ win' = [(IF win.isTranslating THEN finishTranslation(win) ELSE win)
                 EXCEPT !.pc[r] = "cleanup",
                        !.stale = IF win.isTranslating /\ r # win.latest
                                  THEN @ \cup {<<"isTranslating", r>>} ELSE @]
    /\ QFrame

\* The goroutine's deferred cleanup: mw.tempOutputFile is removed when it is
\* not "" and the file exists.
QCleanup(r) ==
    /\ win.pc[r] = "cleanup"
    /\ LET f == win.tempOutputFile
           removes == f # 0 /\ f \in win.files
       IN win' = [win EXCEPT
                    !.pc[r] = "ended",
                    !.files = IF removes THEN @ \ {f} ELSE @,
                    !.stale = IF removes /\ f # r
                              THEN @ \cup {<<"file", r>>} ELSE @]
    /\ QFrame

NextQ ==
    \/ startTranslation
    \/ stopTranslation
    \/ \E r \in 1..MaxRuns : QRunTranslation(r)
    \/ \E r \in 1..MaxRuns : QRunReturns(r)
    \/ \E r \in 1..MaxRuns : QHandleComplete(r)
    \/ \E r \in 1..MaxRuns : QCleanup(r)

SpecQ == InitQ /\ [][NextQ]_vars

\* ======================================================== claims on Spec
\* What the translation of a fragment's text is.
ExpectedTranslation(t) ==
    IF IsBlank(t) THEN <<>>
    ELSE IF OnlyTranslateCJK /\ ~IsCJKText(t) THEN <<t>>
    ELSE Tr(t)

\* The part with every fragment's payload replaced by its own translation.
ExpectedPart ==
    [j \in 1..(2 * n + 1) |->
        IF j % 2 = 0 THEN Rebuilt(ExpectedTranslation(texts[j \div 2]))
        ELSE Gap(j)]

HoldPcs == {"post", "call", "precall", "inflight", "wait", "count", "report",
            "cancel", "send"}
EnginePcs == {"precall", "inflight", "wait"}
Holders == {i \in Tasks : pc[i] \in HoldPcs}
Failed == {i \in Tasks : IsErr(tres[i])}

\* C1: whatever the completion order, slot i keeps the span of fragment i and
\* holds either its original markup or its own translation, and the part a
\* successful batch writes carries the translation of fragment i at the
\* place of fragment i.
C1_OrderPreserved ==
    /\ phase = "running" =>
          \A i \in Tasks :
             /\ results[i].start = MatchStart(i)
             /\ results[i].end = MatchEnd(i)
             /\ results[i].translated \in
                   {Orig(texts[i]), Rebuilt(ExpectedTranslation(texts[i]))}
    /\ (phase = "returned" /\ ret = Nil /\ n > 0) => file = ExpectedPart

\* C1 witness: a batch returned nil after its two different fragments
\* completed in the reverse of their input order.
C1_Witness ==
    /\ phase = "returned" /\ ret = Nil /\ n >= 2
    /\ texts[1] # texts[2]
    /\ cur[2] < cur[1]
    /\ file = ExpectedPart

\* C2: at most K tasks are between Acquire and Release, the semaphore's
\* count is exactly the number of those tasks, a task with an engine call
\* under way is one of them, and a finished task holds nothing.
C2_SemaphoreBound ==
    /\ semCur <= K
    /\ semCur = Cardinality(Holders)
    /\ \A i \in Tasks : pc[i] \in EnginePcs => i \in Holders
    /\ (\A i \in Tasks : pc[i] = "done") => semCur = 0

\* C2 witness: all K slots are taken, one holder has a backend call in
\* flight and another task is blocked in Acquire.
C2_Witness ==
    /\ phase = "running"
    /\ semCur = K
    /\ \E i \in Tasks : pc[i] = "inflight"
    /\ \E j \in Tasks : pc[j] = "acq"

\* C3: a task that held no slot when childCancel() first ran never calls
\* translateFunc, and every task whose call failed has triggered the
\* cancellation before it sends its error and ends.
C3_FailFast ==
    /\ late \cap invoked = {}
    /\ \A i \in Tasks :
          (IsErr(tres[i]) /\ pc[i] \in {"send", "done"}) => childDone

\* C3 witness: the batch returned an engine failure and a task that was
\* still waiting when the failure cancelled the batch ended without a call.
C3_Witness ==
    /\ phase = "returned"
    /\ ret.kind = "llm"
    /\ ~ctxDone
    /\ \E j \in late : pc[j] = "done" /\ j \notin invoked

\* C4: a returned batch gave nil only with every fragment translated and
\* the part rewritten; with a failed task it gave the first error that
\* reached errCh; with no failed task and the context cancelled it gave the
\* context's error; and with either error the part is as it was.
C4_AllOrFirstError ==
    phase = "returned" =>
       /\ ret = Nil =>
             /\ \A i \in Tasks : tres[i].kind \in {"ok", "blank", "same"}
             /\ n > 0 => file = ExpectedPart
       /\ Failed # {} => (Len(sendOrder) > 0 /\ ret = tres[sendOrder[1]])
       /\ (Failed = {} /\ ctxDone) => ret = CtxErr
       /\ ret.kind \in {"llm", "ctx"} => file = StrContent(texts, n)

\* C4 witness: two tasks failed with different errors and the batch
\* returned the one sent first, leaving the part unwritten.
C4_Witness ==
    /\ phase = "returned"
    /\ Len(sendOrder) = 2
    /\ tres[sendOrder[1]] # tres[sendOrder[2]]
    /\ ret = tres[sendOrder[1]]
    /\ file = StrContent(texts, n)

\* C5: the onProgress calls carry total = n and a done value in 1..n that
\* increases strictly in the order the calls are delivered.
C5_ProgressMonotonic ==
    /\ \A a \in 1..Len(progress) :
          progress[a].total = n /\ progress[a].done \in 1..n
    /\ \A a, b \in 1..Len(progress) :
          a < b => progress[a].done < progress[b].done

\* C6: when every task of the batch got its translation and no backend
\* attempt failed, each text that occurs in the batch cost one backend call.
C6_OneBackendCall ==
    (/\ \A i \in Tasks : pc[i] = "done" /\ tres[i] = OkRes /\ attempt[i] <= 1
     /\ phase = "running")
       => \A i \in Tasks : backendCalls[texts[i]] = 1

\* C7: a TranslateText call that returns while the context is cancelled
\* does not return an LLMError.
C7_CancelNeverLLMError ==
    [][\A i \in Tasks :
          (ctxDone /\ pc[i] \in EnginePcs /\ pc'[i] = "count")
             => tres'[i].kind # "llm"]_vars

\* ======================================================= claims on SpecX
\* content[0:a] ++ repl ++ content[b:]
Splice(content, a, b, repl) ==
    Slice(content, 0, a) \o repl \o Slice(content, b, Len(content))

\* The content with the text span of items i, i-1, ..., 1 replaced, the last
\* one first so that the earlier offsets stay valid.
RECURSIVE SpliceBack(_, _, _, _)
SpliceBack(content, items, payloads, i) ==
    IF i = 0 THEN content
    ELSE SpliceBack(Splice(content, items[i].TextStart, items[i].TextEnd,
                           payloads[i]),
                    items, payloads, i - 1)

EscapedPayloads == [i \in 1..Len(xTrans) |-> EscapeString(xTrans[i])]
EscapedSheetPayloads ==
    [i \in 1..Len(xTrans) |->
        EscapeString(IF xType = "xl/workbook.xml"
                        /\ Len(xTrans[i]) > MaxSheetNameRunes
                     THEN SubSeq(xTrans[i], 1, MaxSheetNameRunes)
                     ELSE xTrans[i])]

\* C9 as claimed: Apply's output is the extracted content with each item's
\* [TextStart, TextEnd) replaced by the XML-escaped translation and every
\* other character kept in place.
C9_ApplyReplacesPayloadsOnly ==
    xStage = "applied" =>
       /\ ~xApplied.err
       /\ xApplied.content =
             SpliceBack(xOut, xItems, EscapedPayloads, Len(xItems))

\* C9 amended: the same, the replacement for a part xl/workbook.xml being the
\* XML-escaped first 31 characters of the translation.
C9_ApplyFrame ==
    xStage = "applied" =>
       /\ ~xApplied.err
       /\ xApplied.content =
             SpliceBack(xOut, xItems, EscapedSheetPayloads, Len(xItems))

\* C9 witness: Apply ran on two items of a part that also holds a fragment
\* Extract filtered out, with a translation that needs escaping.
C9_Witness ==
    /\ xStage = "applied"
    /\ Len(xItems) = 2
    /\ Len(FindAll(PatternOf(xType), xOut)) > Len(xItems)
    /\ \E i \in 1..2 : xTrans[i] = <<"<", "&", "\"">>
    /\ xApplied.content # xOut
    /\ xApplied.content =
          SpliceBack(xOut, xItems, EscapedSheetPayloads, Len(xItems))

\* C10: in the items of one Extract call every span is well formed and lies
\* in the returned content, and consecutive items do not overlap and ascend.
C10_SpansOrdered ==
    xStage \in {"extracted", "applied"} =>
       /\ \A i \in 1..Len(xItems) :
             /\ 0 <= xItems[i].MatchStart
             /\ xItems[i].MatchStart <= xItems[i].TextStart
             /\ xItems[i].TextStart <= xItems[i].TextEnd
             /\ xItems[i].TextEnd <= xItems[i].MatchEnd
             /\ xItems[i].MatchEnd <= Len(xOut)
       /\ \A i \in 1..(Len(xItems) - 1) :
             xItems[i].MatchEnd <= xItems[i + 1].MatchStart

\* C10 witness: Extract returned two items of a sharedStrings part from
\* which it had stripped a phonetic annotation.
C10_Witness ==
    /\ xStage = "extracted"
    /\ xType = "xl/sharedStrings.xml"
    /\ Len(xItems) >= 2
    /\ Len(xOut) < Len(xContent)
    /\ xItems[1].MatchEnd <= xItems[2].MatchStart

\* C11: Apply with a translation count other than the item count fails and
\* hands back the empty string: nothing was replaced and no altered content
\* reaches the caller.
C11_CountMismatchRejected ==
    xStage = "mismatch" =>
       /\ Len(xTrans) # Len(xItems)
       /\ xApplied.err
       /\ xApplied.content = <<>>

\* C11 witness: Apply was handed two items and three translations, on a
\* content that it would otherwise have changed.
C11_Witness ==
    /\ xStage = "mismatch"
    /\ Len(xItems) = 2
    /\ Len(xTrans) = 3
    /\ xOut # <<>>
    /\ xApplied.err

\* C12 as claimed: with no item extracted, Apply on Extract's result and
\* an empty translation list returns the content Extract was given.
C12_RoundTripOriginal ==
    (xStage = "applied" /\ xItems = <<>>) =>
       /\ ~xApplied.err
       /\ xApplied.content = xContent

\* C12 amended: it returns the content Extract returned, which is the
\* content Extract was given except that a sharedStrings part has lost its
\* phonetic annotations.
C12_RoundTripBaseline ==
    (xStage = "applied" /\ xItems = <<>>) =>
       /\ ~xApplied.err
       /\ xApplied.content = xOut
       /\ xApplied.content =
             (IF xType = "xl/sharedStrings.xml"
              THEN removePhoneticAnnotations(xContent)
              ELSE xContent)

\* C12 witness: a sharedStrings part with a phonetic property and a
\* fragment that passes no filter went through Extract and Apply.
C12_Witness ==
    /\ xStage = "applied"
    /\ xType = "xl/sharedStrings.xml"
    /\ xItems = <<>>
    /\ xTrans = <<>>
    /\ Len(FindAll("t", xOut)) > 0
    /\ Len(xOut) < Len(xContent)
    /\ xApplied.content = xOut

\* ======================================================= claims on SpecP
\* C8 as claimed: when a run of ProcessFile has ended in an error, the run
\* has neither created nor modified a file at the output path.
C8_NoPartialOutput ==
    (pStage = "returned" /\ pRet # Nil) => ~pOutTouched

\* The part names Extract has a pattern for.
PatternedNames ==
    {"word/document.xml", "word/header1.xml", "word/footer1.xml",
     "xl/sharedStrings.xml", "xl/drawings/drawing1.xml", "xl/workbook.xml"}

\* C13: an entry whose name no pattern of Extract applies to is written
\* with the content it was read with, and no Translate call is ever made
\* for such an entry.
C13_PassThroughIdentical ==
    /\ \A j \in 1..Len(pOutEntries) :
          pEntries[j].Name \notin PatternedNames =>
             pOutEntries[j].Content = EntryContent(pEntries[j].Name)
    /\ \A a \in 1..Len(pAsked) : pAsked[a].Name \in PatternedNames

\* C13 witness: a run ended well that copied xl/comments1.xml, which holds
\* text Extract would match under the shared-strings pattern, and translated
\* a shared-strings part.
C13_Witness ==
    /\ pStage = "returned" /\ pRet = Nil
    /\ \E j \in 1..Len(pOutEntries) :
          /\ pEntries[j].Name = "xl/comments1.xml"
          /\ pOutEntries[j].Content = EntryContent("xl/comments1.xml")
    /\ \E j \in 1..Len(pOutEntries) :
          /\ pEntries[j].Name = "xl/sharedStrings.xml"
          /\ pOutEntries[j].Content # EntryContent("xl/sharedStrings.xml")
    /\ Len(pAsked) > 0

\* C14: the entries written so far are the first entries of the input, in
\* its order and with its names, methods and modification times; an entry
\* is taken up only when the one before it has been written; and after a
\* successful run the output has as many entries as the input.
C14_SameEntriesSameOrder ==
    /\ Len(pOutEntries) <= Len(pEntries)
    /\ \A j \in 1..Len(pOutEntries) :
          /\ pOutEntries[j].Name = pEntries[j].Name
          /\ pOutEntries[j].Method = pEntries[j].Method
          /\ pOutEntries[j].Modified = pEntries[j].Modified
    /\ pStage \in {"loop", "write"} => Len(pOutEntries) = pIdx - 1
    /\ (pStage = "returned" /\ pRet = Nil) =>
          Len(pOutEntries) = Len(pEntries)

\* C14 witness: a successful run over three entries of both compression
\* methods, two of them with the same name.
C14_Witness ==
    /\ pStage = "returned" /\ pRet = Nil
    /\ Len(pEntries) = 3
    /\ Len(pOutEntries) = 3
    /\ pEntries[1].Name = pEntries[3].Name
    /\ pEntries[1].Method # pEntries[3].Method
    /\ pOutEntries[3].Method = "store"
    /\ pOutEntries[3].Modified = 2

\* ======================================================= claims on SpecT
\* C16: a TranslateText call never makes more than three backend attempts,
\* makes none after it has returned (so none after a good answer), and
\* gives up with an LLMError only when its third attempt has failed.
C16_AtMostThreeAttempts ==
    \A c \in Callers :
       /\ tAttempt[c] <= 3
       /\ tPc[c] \in {"inflight", "wait", "emit"} => tRet[c] = NoRes
       /\ tPc[c] = "wait" => tAttempt[c] < 3
       /\ (tPc[c] = "emit" \/ tRet[c] = LLMErr(c)) => tAttempt[c] = 3

\* C16 witness: one call returned a translation from its second attempt
\* and stopped there, another gave up after three failed attempts.
C16_Witness ==
    \E c, d \in Callers :
       /\ tPc[c] = "done" /\ tRet[c] = OkRes /\ tAttempt[c] = 2
       /\ tPc[d] = "done" /\ tRet[d] = LLMErr(d) /\ tAttempt[d] = 3

\* C18 as claimed: a cache entry appears only in the step in which a
\* backend call for that text succeeds, holding the value that call
\* returned, and an entry that exists is never removed or changed.
C18_CacheAppendOnly ==
    [][\A t \in EngineTexts :
          /\ tCache[t] # NoEntry => tCache'[t] = tCache[t]
          /\ tCache'[t] # tCache[t] =>
                \E c \in Callers :
                   /\ tText[c] = t
                   /\ tPc[c] = "inflight"
                   /\ tRet'[c] = OkRes
                   /\ tVal'[c] = tCache'[t]]_vars

\* C20 as claimed: a call that ran out of attempts returns an LLMError, and
\* the failures of the concurrent tasks of one batch put at most one Error
\* event on the event stream.
C20_EngineFailureOnce ==
    /\ \A c \in Callers :
          (tPc[c] = "done" /\ tAttempt[c] = 3 /\ tRet[c] # OkRes)
             => tRet[c] = LLMErr(c)
    /\ Len(tEvents) <= 1

\* ======================================================= claims on SpecL
\* C15 as claimed: for an empty or whitespace-only text no request goes to
\* the backend and Translate returns ("", nil).
C15_BlankSkipsBackend ==
    \A c \in Callers :
       IsBlank(lText[c]) =>
          /\ lCalls[c] = 0
          /\ lPc[c] = "done" => (lRet[c] = OkRes /\ lVal[c] = "")

\* C17 as claimed: a call that is between two attempts when the context is
\* cancelled goes on to no further request: it stays where it is or returns.
C17_CancelAbortsRetries ==
    [][\A c \in Callers :
          (lCtxDone /\ lPc[c] = "sleep") => lPc'[c] \in {"sleep", "done"}]_vars

\* C19 as claimed: an answer with empty content is never returned as a
\* translation and never stored in the cache.
C19_EmptyAnswerIsFailure ==
    /\ \A c \in Callers :
          (lPc[c] = "done" /\ lRet[c] = OkRes) => lVal[c] # ""
    /\ \A t \in ServiceTexts : lCache[t] # ""

\* ================================================= further claims on Spec
\* C22, its first two parts: once the context is cancelled, a task at the
\* check before Acquire, in Acquire, or at the check after it goes on to its
\* return and never to the engine.
C22_CancelStopsWaiting ==
    [][\A i \in Tasks :
          (ctxDone /\ pc[i] \in {"pre", "acq", "post"} /\ pc'[i] # pc[i])
             => (pc'[i] = "done" /\ (i \in invoked' <=> i \in invoked))]_vars

C23_ReturnAfterAllTasks ==
    (phase = "returned" /\ results # <<>>) =>
        /\ \A i \in Tasks : pc[i] = "done"
        /\ semCur = 0

\* A batch of two returned the failure of one task while the other task had
\* been in its engine call too.
C23_Witness ==
    /\ phase = "returned"
    /\ n = 2
    /\ ret.kind = "llm"
    /\ invoked = {1, 2}
    /\ \A i \in Tasks : pc[i] = "done"

\* ======================================================= claims on SpecS
\* C24: when TranslateShapes / TranslateDocument has returned, with nil or
\* with any error, no temporary directory of that call exists.
C24_TempDirRemoved ==
    (shapes # NoRun /\ shapes.pc = "returned") => shapes.temp # "exists"

\* A call that had made its directory returned with an engine failure of its
\* second part, and the directory is gone.
C24_Witness ==
    /\ shapes # NoRun
    /\ shapes.pc = "returned"
    /\ shapes.ret.kind = "llm"
    /\ Len(shapes.results) = 2
    /\ shapes.temp = "removed"

\* ======================================================= claims on SpecN
\* C25 as claimed: every name TranslateSheetNames sets for a sheet, the
\* names with a collision suffix among them, has at most 31 code points.
C25_SheetNameAtMost31 ==
    sheets # NoRun =>
       \A k \in 1..Len(sheets.set) : Len(sheets.set[k]) <= MaxSheetNameRunes

\* ======================================================= claims on SpecR
\* C27 as claimed: when the channel is closed, the first event delivered was
\* Start, the last was Complete with the run's final error, and no other
\* Complete was delivered.
C27_OneOrderedStream ==
    (run # NoRun /\ run.pc = "closed") =>
       LET ev == run.events
       IN /\ Len(ev) >= 2
          /\ ev[1].kind = "start"
          /\ ev[Len(ev)] = Event("complete", "", run.err)
          /\ \A k \in 1..(Len(ev) - 1) : ev[k].kind # "complete"

\* C34 as claimed: close(events) is called at most once, exactly once when
\* the worker has ended, and no send on events follows a close.
C34_ClosedOnceNoLateSend ==
    run # NoRun =>
       /\ run.closes <= 1
       /\ run.lateSends = 0
       /\ run.pc \in {"closed", "crashed"} => run.closes = 1

\* C28 as claimed: the configuration the core works with has
\* maxConcurrentRequests of at least 1.
C28_ConcurrencyAtLeastOne ==
    (run # NoRun /\ run.pc \notin {"load", "failed"}) => run.K >= 1

\* C29: the phases started are sheet names, cell values, drawing shapes in
\* this order; a phase starts only when every phase before it has returned
\* nil and the context is not cancelled.
C29_PhasesInOrder ==
    [][(run # NoRun /\ run.kind = "xlsx") =>
          /\ \A k \in 1..Len(run'.started) :
                run'.started[k] = <<"sheet", "cell", "shape">>[k]
          /\ run'.started # run.started =>
                /\ ~run.ctxDone
                /\ Len(run.returned) = Len(run.started)
                /\ \A k \in 1..Len(run.returned) : run.returned[k] = Nil
                /\ run'.started = Append(run.started,
                       <<"sheet", "cell", "shape">>[Len(run.started) + 1])]_vars

\* All three phases ran and the run ended without error.
C29_Witness ==
    /\ run # NoRun
    /\ run.kind = "xlsx"
    /\ run.pc = "closed"
    /\ run.started = <<"sheet", "cell", "shape">>
    /\ run.returned = <<Nil, Nil, Nil>>
    /\ run.err = Nil

\* ======================================================= claims on SpecF
\* The progress reports among the callbacks made.
ProgressOf(cbs) == SelectSeq(cbs, LAMBDA c : c[1] = "OnProgress")

\* C30: the engine is called for the texts in input order, one at a time;
\* result i is the engine's answer for texts[i]; progress (i, total) follows
\* item i (when a progress callback is installed); a successful return has
\* len(texts) results; a failed return has an error and no list, with one
\* engine call per item up to the failing one and progress for the items
\* before it only.
C30_SequentialInOrder ==
    ftx # NoRun =>
       LET total == Len(ftx.texts)
           got == Len(ftx.translations)
       IN /\ Len(ftx.calls) <= total
          /\ ftx.calls = SubSeq(ftx.texts, 1, Len(ftx.calls))
          /\ Len(ftx.calls) \in {got, got + 1}
          /\ ftx.pc = "loop" => Len(ftx.calls) = got
          /\ ftx.translations = ftx.replies
          /\ ProgressOf(ftx.cbs) =
                IF "OnProgress" \in ftx.hooks
                THEN [k \in 1..got |-> <<"OnProgress", k, total>>]
                ELSE <<>>
          /\ ftx.ret # NoRes =>
                /\ ftx.pc = "done"
                /\ IF ftx.ret.err = Nil
                   THEN /\ Len(ftx.ret.res) = total
                        /\ ftx.ret.res = ftx.replies
                        /\ ftx.calls = ftx.texts
                   ELSE /\ ftx.ret.res = <<>>
                        /\ got < total

\* C30, the other half: after the return no engine call and no callback is
\* made.
C30_NothingAfterReturn ==
    [][(ftx # NoRun /\ ftx.ret # NoRes) => ftx' = ftx]_vars

\* A call that returned all translations of three texts with progress
\* reported, and a call that failed at its second item.
C30_Witness ==
    /\ ftx # NoRun
    /\ ftx.ret # NoRes
    /\ ftx.ret.err = Nil
    /\ Len(ftx.ret.res) = MaxItems
    /\ ftx.ret.res[1] # ftx.ret.res[2]
    /\ Len(ProgressOf(ftx.cbs)) = MaxItems

C30_WitnessFailure ==
    /\ ftx # NoRun
    /\ ftx.ret # NoRes
    /\ ftx.ret.err # Nil
    /\ Len(ftx.calls) = 2
    /\ Len(ftx.texts) = MaxItems
    /\ Len(ProgressOf(ftx.cbs)) = 1

\* ======================================================= claims on SpecC
\* C33 as claimed: once every task and every helper goroutine has ended, no
\* semaphore slot is held.
C33_HelperSlotsReleased ==
    (/\ cells # NoRun
     /\ \A i \in 1..cells.size :
           cells.pc[i] = "done" /\ cells.helper[i] # "acquire")
       => cells.cur = 0

\* ===================================================== claims on SpecLive
\* C32: every task of the batch eventually finishes and the batch call
\* eventually returns, for TranslateDrawingFile and for TranslateCells,
\* cancelled or not, with failing engine calls or not.
C32_BatchTerminates ==
    /\ cells = NoRun =>
          <>(/\ cells = NoRun
             /\ phase = "returned"
             /\ ret # NoRes
             /\ results # <<>> => \A i \in Tasks : pc[i] = "done")
    /\ cells # NoRun =>
          <>(/\ cells # NoRun
             /\ cells.ret # NoRes
             /\ \A i \in 1..cells.size :
                   cells.pc[i] = "done" /\ cells.helper[i] # "acquire")

\* More tasks than slots, no cancellation: a batch whose tasks queued for
\* the one slot has returned nil.
C32_Witness ==
    /\ cells = NoRun
    /\ phase = "returned"
    /\ n = MaxFragments
    /\ K = 1
    /\ ~ctxDone
    /\ ret = Nil
    /\ \A i \in Tasks : pc[i] = "done"

\* ====================================================== claims on SpecRT
\* C35 as claimed: a RunTranslation call that has returned made exactly one
\* OnComplete callback, as its last callback, with the error it returned;
\* and OnError("fileprocessor") right before it when the processing failed.
C35_CompleteOnceLast ==
    (rt # NoRun /\ rt.pc = "returned") =>
       LET c == rt.cbs
       IN /\ Len(c) >= 1
          /\ c[Len(c)] = Callback("OnComplete", rt.ret)
          /\ \A k \in 1..(Len(c) - 1) : c[k].name # "OnComplete"
          /\ rt.ret # Nil =>
                /\ Len(c) >= 2
                /\ c[Len(c) - 1] = Callback("OnError", "fileprocessor")

\* ====================================================== claims on SpecCI
\* C36 as claimed: a running Translate call stays cancellable through its
\* task id, that is the id's entry holds this call's cancel function until
\* the call itself returns; and a context is cancelled only by a
\* CancelTranslate of its id or by its own call's return.
C36_RunningCallCancellable ==
    capi # NoRun =>
       /\ \A c \in 1..MaxCalls :
             capi.pc[c] \in {"registered", "running"}
                => capi.taskMap[capi.id[c]] = c
       /\ \A c \in 1..MaxCalls :
             capi.pc[c] = "idle" => ~capi.ctxDone[c]

\* ======================================================= claims on SpecQ
\* C37 as claimed: the completion handler and the cleanup of a stopped run
\* never reset isTranslating for a newer run and never remove a newer run's
\* temporary file.
C37_RunsIsolated ==
    win # NoRun => \A e \in win.stale : e[2] \notin win.stopped

\* ================================================ further claims on SpecX
\* The sheet names of a workbook part, as written in name="...".
SheetNamesOf(content) ==
    LET ms == FindAll("sheet", content)
    IN [i \in 1..Len(ms) |-> Slice(content, ms[i].ts, ms[i].te)]
Distinct(seq) ==
    \A a, b \in 1..Len(seq) : a # b => seq[a] # seq[b]

\* C26 as claimed, for Apply on xl/workbook.xml: a workbook whose sheets had
\* different names has sheets of different names after the translations are
\* applied.
C26_FinalNamesDistinct ==
    (/\ xStage = "applied"
     /\ IsWorkbook(xType)
     /\ Distinct(SheetNamesOf(xOut)))
       => Distinct(SheetNamesOf(xApplied.content))

\* The spans the legacy document translator replaces, as items.
LegacyRuns ==
    LET ms == FindAllRuns(xContent, 0)
    IN [k \in 1..Len(ms) |-> [TextStart |-> ms[k].ts, TextEnd |-> ms[k].te]]

\* C31 as claimed: the part TranslateDocumentXmlFile writes is the original
\* with the text payload of each translated run replaced by the escaped
\* translation; the opening <w:t ...> tags with their attributes and every
\* other byte are the original's.
C31_DocumentMarkupKept ==
    xStage = "legacy" =>
       xApplied.content =
          SpliceBack(xContent, LegacyRuns, EscapedPayloads, Len(LegacyRuns))

\* ================================================ further claims on SpecL
\* C21: in the revision with the streaming fallback, a call whose standard
\* request was answered "only support stream mode" goes on through the
\* streaming transport and sets the flag; the flag is never reset; a request
\* that starts while the flag is set goes straight to streaming.
C21_ForceStreamRemembered ==
    [][/\ lForceStream => lForceStream'
       /\ \A c \in Callers :
             /\ (/\ lRev = StreamRevision
                 /\ lPc[c] = "standard"
                 /\ lPc'[c] # "standard"
                 /\ lLast'[c] = "streamonly")
                => (lPc'[c] = "streaming" /\ lForceStream')
             /\ (lForceStream /\ lPc[c] = "request" /\ lPc'[c] # "request")
                => lPc'[c] = "streaming"]_vars

\* Caller 1 was turned away and fell back; caller 2 started afterwards and
\* went to streaming with its only request.
C21_Witness ==
    /\ lRev = StreamRevision
    /\ lForceStream
    /\ lLast[1] = "streamonly"
    /\ lCalls[1] = 2
    /\ lLast[2] = "-"
    /\ lCalls[2] = 1
    /\ lPc[2] \in {"streaming", "done"}

====
